---------------------------- MODULE Spec2Model ----------------------------
(***************************************************************************)
(* The real-time board synchronisation server (server/src/index.ts), its   *)
(* durable store (server/src/database/service.ts) and the receiving side   *)
(* of the client store (src/store/useStore.ts).                            *)
(*                                                                         *)
(* One action per socket event handler.  socket.io is modelled by what the *)
(* handlers use of it: rooms (socket.join, left again when the socket      *)
(* closes), socket.emit, socket.to(room).emit / socket.broadcast.to(room)  *)
(* (the room without the sender) and io.to(room).emit (the whole room).    *)
(***************************************************************************)
EXTENDS Integers, Sequences, FiniteSets, TLC

(***************************************************************************)
(* Bounds of the model.                                                    *)
(***************************************************************************)
NumConns == 3            \* sockets that connect during a behaviour
MaxStickies == 2         \* longest stickies array explored
MaxInstances == 2        \* longest canvasInstances array explored
MaxInbox == 2            \* events in flight to one followed client
MaxLog == 3              \* longest recorded run of mutation events
MaxClock == 1            \* ticks of the server's clock
MaxTimers == 2           \* pending expiry timers of one followed client
MaxOutbox == 1           \* events one followed client has emitted and the server not yet handled
MaxItems == 5            \* longest list passed to the layout validator
MaxSessionClock == 3     \* ticks of the clock while sessions are followed

Conns == 1..NumConns
Boards == {"b1", "b2"}
Users == {"u1", "ux"}
RegisteredUsers == {"u1"}        \* rows of the users table; "ux" has none
Usernames == {"user1", "userx", "eve"}

\* users.username of a row of the users table
UsernameOfUser(u) == IF u = "u1" THEN "user1" ELSE "userx"

\* the username a client sends with its userId: the one of its login session
SessionName(u) == UsernameOfUser(u)
StickyIds == {"s1", "s2"}
NULL == "null"

(***************************************************************************)
(* Content: stickies and canvas instances, kept in arrays.                 *)
(***************************************************************************)
NewSticky(id) == [id |-> id, text |-> "a", color |-> "y"]
NewInstance(id, sid) == [id |-> id, stickyId |-> sid, x |-> 0, y |-> 0]
EmptyProject == [stickies |-> <<>>, canvasInstances |-> <<>>]

\* Array.prototype.findIndex on the id: the first match, 0 for -1
FindIndex(s, id) ==
    IF \E i \in 1..Len(s) : s[i].id = id
    THEN CHOOSE i \in 1..Len(s) :
             /\ s[i].id = id
             /\ \A j \in 1..(i - 1) : s[j].id # id
    ELSE 0

\* { ...entity, ...updates }
Spread(entity, updates) ==
    [f \in DOMAIN entity \cup DOMAIN updates |->
        IF f \in DOMAIN updates THEN updates[f] ELSE entity[f]]

\* the elements of a set of sockets as a sequence, by socket id
RECURSIVE SetToSeq(_)
SetToSeq(S) ==
    IF S = {} THEN <<>>
    ELSE LET m == CHOOSE x \in S : \A y \in S : x <= y
         IN <<m>> \o SetToSeq(S \ {m})

\* every arrangement of a finite set as a sequence
Perms(S) ==
    {p \in [1..Cardinality(S) -> S] : \A i, j \in 1..Cardinality(S) : i # j => p[i] # p[j]}


(***************************************************************************)
(* Inputs the clients send.                                                *)
(***************************************************************************)
P0 == EmptyProject
P1 == [stickies |-> <<NewSticky("s1")>>, canvasInstances |-> <<>>]
P2 == [stickies |-> <<NewSticky("s1")>>,
       canvasInstances |-> <<NewInstance("i1", "s1")>>]
P3 == [stickies |-> <<>>, canvasInstances |-> <<NewInstance("i1", "s1")>>]
Snapshots == {P0, P1, P2, P3}

\* the optional project of board:join; "name" stands for a non-empty name
NoSeed == [given |-> FALSE, name |-> FALSE, content |-> P0]

(***************************************************************************)
(* State.                                                                  *)
(***************************************************************************)
VARIABLES
    boards,          \* the registry: resident boardId -> BoardData
    status,          \* per socket: "new", "open", "closed"
    currentBoardId,  \* per socket: the handler closure's currentBoardId
    currentUserId,   \* per socket: the handler closure's currentUserId
    rooms,           \* per socket: the socket.io rooms it is in
    db,              \* the durable tables boards, stickies, canvas_instances, sessions
    last,            \* history: the handler that ran last and what it emitted
    inbox,           \* per followed client: events delivered, not yet handled
    project,         \* per followed client: the local store's content
    eventLog,        \* history: per board, the mutation events applied to it
    probe,           \* which history the model records (fixed by Init)
    firstOwner,      \* history: per boardId, the owner its first board:sync named
    evicted,         \* history: per boardId, the content it was last evicted with
    now,             \* the server's clock, Date.now()
    stickyActivities,\* per followed client: the store's instanceId -> activity
    timers,          \* per followed client: the pending setTimeout callbacks
    outbox,          \* per followed client: events emitted, not yet handled
    positions,       \* the argument of validateAndAdjustLayout
    laid,            \* its result as <<result>>; <<>> before the call
    store            \* per followed client: the store's undo history and flags

vars == <<boards, status, currentBoardId, currentUserId, rooms, db, last,
          inbox, project, eventLog, probe, firstOwner, evicted, now, stickyActivities,
          timers, outbox, positions, laid, store>>

\* the argument and the result of the layout validator
layoutVars == <<positions, laid>>

\* the client state of the activity markers
activityVars == <<stickyActivities, timers>>

Resident(b) == b \in DOMAIN boards

\* Map.prototype.set / delete on a function with a finite domain
MapSet(m, k, v) == [x \in DOMAIN m \cup {k} |-> IF x = k THEN v ELSE m[x]]
MapDelete(m, k) == [x \in DOMAIN m \ {k} |-> m[x]]
EmptyMap == [x \in {} |-> NULL]

(***************************************************************************)
(* socket.io emits.  An emit is the sequence of its deliveries.            *)
(***************************************************************************)
Members(rm, b) == {c \in Conns : b \in rm[c]}

EmitTo(targets, ev, data) ==
    LET ts == SetToSeq(targets)
    IN [i \in 1..Len(ts) |-> [to |-> ts[i], ev |-> ev, data |-> data]]

\* socket.emit(ev, data)
SocketEmit(c, ev, data) == EmitTo({c}, ev, data)

\* io.to(room).emit(ev, data)
IoTo(rm, b, ev, data) == EmitTo(Members(rm, b), ev, data)

\* (variant) an emit that does not leave the sender out
SocketToWholeRoom(rm, c, b, ev, data) == EmitTo(Members(rm, b), ev, data)

\* socket.to(room).emit(ev, data) and socket.broadcast.to(room).emit(ev, data)
SocketTo(rm, c, b, ev, data) == EmitTo(Members(rm, b) \ {c}, ev, data)

\* (variant) a transport that hands a client the newest event first
DeliverNewestFirst(out, open) ==
    inbox' = [c \in Conns |->
                IF c \in probe.clients /\ c \in open
                THEN [i \in 1..Len(SelectSeq(out, LAMBDA m : m.to = c)) |->
                        LET m == SelectSeq(out, LAMBDA d : d.to = c)[i]
                        IN [ev |-> m.ev, data |-> m.data]]
                     \o inbox[c]
                ELSE <<>>]

\* the deliveries reach the inbox of each followed client that is connected
Deliver(out, open) ==
    inbox' = [c \in Conns |->
                IF c \in probe.clients /\ c \in open
                THEN inbox[c] \o
                     [i \in 1..Len(SelectSeq(out, LAMBDA m : m.to = c)) |->
                        LET m == SelectSeq(out, LAMBDA d : d.to = c)[i]
                        IN [ev |-> m.ev, data |-> m.data]]
                ELSE <<>>]

\* the event the server handles leaves the send queue of a followed client
\* that emitted it; a disconnect drops what the client had queued
Sent(kind, c, b, arg) ==
    outbox' = [x \in Conns |->
                 IF x # c THEN outbox[x]
                 ELSE IF kind = "disconnect" THEN <<>>
                 ELSE IF /\ outbox[c] # <<>>
                         /\ Head(outbox[c]).ev = kind
                         /\ Head(outbox[c]).boardId = b
                         /\ Head(outbox[c]).data = arg
                 THEN Tail(outbox[c])
                 ELSE outbox[c]]

\* what the handler of event kind on socket c did, and what it emitted
Handled(kind, c, b, arg, how, out) ==
    /\ last' = [kind |-> kind, conn |-> c, boardId |-> b, arg |-> arg,
                how |-> how, out |-> out]
    /\ Deliver(out, {x \in Conns : status[x] = "open" /\ ~(kind = "disconnect" /\ x = c)})
    /\ Sent(kind, c, b, arg)

\* the mutation events append to the board's log while it is recorded
Logged(b, ev) ==
    eventLog' = IF probe.log /\ b \in DOMAIN eventLog
                THEN [eventLog EXCEPT ![b].events = Append(@, ev)]
                ELSE eventLog

\* a board whose content was just set as a whole starts a new log
LogFrom(b, content) ==
    eventLog' = IF probe.log
                THEN MapSet(eventLog, b, [base |-> content, events |-> <<>>])
                ELSE eventLog

(***************************************************************************)
(* The durable store (database/service.ts over database/schema.ts).        *)
(***************************************************************************)
EmptyDb ==
    [boards |-> EmptyMap, stickies |-> {}, canvas_instances |-> {},
     sessions |-> EmptyMap]

\* getBoardByBoardId(boardId) is defined
HasRow(d, b) == b \in DOMAIN d.boards

\* createBoard(name, userId, boardId): throws when the user has no row
createBoard(d, u, b) ==
    IF u \in RegisteredUsers
    THEN [d EXCEPT !.boards = MapSet(d.boards, b, [owner_id |-> u, owner_username |-> UsernameOfUser(u)])]
    ELSE d

\* the seven days of a session, in ticks of the clock
SESSION_LIFETIME == 1

\* createSession(userId): the row it inserts.  The token stands for the 32
\* random bytes; t is Date.now()
createSession(d, userId, token, t) ==
    [d EXCEPT !.sessions =
        MapSet(@, token, [user_id |-> userId, token |-> token, login_time |-> t,
                          expires_at |-> t + SESSION_LIFETIME])]

\* deleteSession(token)
deleteSession(d, token) == [d EXCEPT !.sessions = MapDelete(@, token)]

\* (variant) a validateSession that leaves an expired session stored
validateSessionKeeping(d, token, t) ==
    IF token \notin DOMAIN d.sessions THEN [session |-> <<>>, db |-> d]
    ELSE IF t > d.sessions[token].expires_at THEN [session |-> <<>>, db |-> d]
    ELSE [session |-> <<d.sessions[token]>>, db |-> d]

\* validateSession(token) at Date.now() = t: what it returns (<<>> for
\* null, <<session>> for a session) and the tables it leaves
validateSession(d, token, t) ==
    IF token \notin DOMAIN d.sessions THEN [session |-> <<>>, db |-> d]
    ELSE IF t > d.sessions[token].expires_at
    THEN [session |-> <<>>, db |-> deleteSession(d, token)]
    ELSE [session |-> <<d.sessions[token]>>, db |-> d]

StickyRow(b, s) == [id |-> s.id, board_id |-> b, text |-> s.text, color |-> s.color]
InstanceRow(b, ci) ==
    [id |-> ci.id, board_id |-> b, sticky_id |-> ci.stickyId, x |-> ci.x, y |-> ci.y]

Distinct(s) == \A i, j \in 1..Len(s) : i # j => s[i].id # s[j].id

\* (variant) the statements of saveBoardState without the transaction: what
\* ran before the failing statement stays
saveBoardStateUnwrapped(d, b, stickies, instances) ==
    LET keptS == {r \in d.stickies : r.board_id # b}
        keptI == {r \in d.canvas_instances :
                      /\ r.board_id # b
                      /\ \E s \in keptS : s.id = r.sticky_id}
        newS == {StickyRow(b, stickies[i]) : i \in 1..Len(stickies)}
        newI == {InstanceRow(b, instances[i]) : i \in 1..Len(instances)}
    IN [d EXCEPT !.stickies = keptS \cup newS,
                 !.canvas_instances =
                     keptI \cup {r \in newI : \E s \in keptS \cup newS : s.id = r.sticky_id}]

\* saveBoardState(boardId, stickies, instances): one transaction.  The two
\* DELETEs (the second cascades to the instances that reference a deleted
\* sticky), then the INSERTs; a primary-key or foreign-key failure throws
\* and the transaction is rolled back.
saveBoardState(d, b, stickies, instances) ==
    LET keptS == {r \in d.stickies : r.board_id # b}
        keptI == {r \in d.canvas_instances :
                      /\ r.board_id # b
                      /\ \E s \in keptS : s.id = r.sticky_id}
        newS == {StickyRow(b, stickies[i]) : i \in 1..Len(stickies)}
        newI == {InstanceRow(b, instances[i]) : i \in 1..Len(instances)}
        ok == /\ Distinct(stickies)
              /\ \A r \in newS : \A k \in keptS : k.id # r.id
              /\ Distinct(instances)
              /\ \A r \in newI : \A k \in keptI : k.id # r.id
              /\ \A r \in newI : \E s \in keptS \cup newS : s.id = r.sticky_id
    IN IF ok
       THEN [d EXCEPT !.stickies = keptS \cup newS,
                      !.canvas_instances = keptI \cup newI]
       ELSE d

\* getFullBoard(id): the rows of the board, in the order of the two ORDER BY
\* clauses.  created_at and z_index are not part of the model, so every
\* order is possible.
FullBoards(d, b) ==
    LET S == {r \in d.stickies : r.board_id = b}
        I == {r \in d.canvas_instances : r.board_id = b}
    IN {[owner_id |-> d.boards[b].owner_id, owner_username |-> d.boards[b].owner_username,
         stickies |-> ps, canvasInstances |-> pi] :
            ps \in Perms(S), pi \in Perms(I)}

\* (variant) a load that drops the stored content
FromRowsEmpty(fb) == EmptyProject

\* the board:join mapping of the rows to the in-memory project
FromRows(fb) ==
    [stickies |-> [i \in 1..Len(fb.stickies) |->
                     [id |-> fb.stickies[i].id, text |-> fb.stickies[i].text,
                      color |-> fb.stickies[i].color]],
     canvasInstances |-> [i \in 1..Len(fb.canvasInstances) |->
                     [id |-> fb.canvasInstances[i].id,
                      stickyId |-> fb.canvasInstances[i].sticky_id,
                      x |-> fb.canvasInstances[i].x, y |-> fb.canvasInstances[i].y]]]

(***************************************************************************)
(* io.on('connection'): a socket with its two closure variables.           *)
(***************************************************************************)
Connect(c) ==
    /\ status[c] = "new"
    /\ \A d \in Conns : d < c => status[d] # "new"    \* sockets are numbered as they connect
    /\ status' = [status EXCEPT ![c] = "open"]
    /\ currentBoardId' = [currentBoardId EXCEPT ![c] = NULL]
    /\ currentUserId' = [currentUserId EXCEPT ![c] = NULL]
    /\ Handled("connection", c, NULL, <<>>, "", <<>>)
    /\ UNCHANGED <<boards, rooms, db, project, eventLog, probe, firstOwner, evicted,
                   now, activityVars,
                   layoutVars, store>>

\* (variant) a roster list that sends the whole userInfo entries
RosterListWithSockets(board) ==
    {board.connectedUsers[k] : k \in DOMAIN board.connectedUsers}

\* Array.from(board.connectedUsers.values()).map(u => ({ userId, username })),
\* as a set
RosterList(board) ==
    {[userId |-> board.connectedUsers[k].userId,
      username |-> board.connectedUsers[k].username] : k \in DOMAIN board.connectedUsers}

(***************************************************************************)
(* socket.on('board:join')                                                 *)
(***************************************************************************)
\* (variant) a join that does not look the registry up
ResolveWithoutRegistry(b, u, username, seed) ==
    IF HasRow(db, b)
    THEN {[how |-> "hydrated",
           board |-> [ownerId |-> fb.owner_id, ownerUsername |-> fb.owner_username,
                      project |-> FromRows(fb),
                      connectedUsers |-> EmptyMap],
           db |-> db] : fb \in FullBoards(db, b)}
    ELSE {[how |-> "created",
           board |-> [ownerId |-> u, ownerUsername |-> username,
                      project |-> IF seed.given THEN seed.content ELSE EmptyProject,
                      connectedUsers |-> EmptyMap],
           db |-> IF seed.given /\ seed.name THEN createBoard(db, u, b) ELSE db]}

\* (variant) a join whose project replaces the content of the board it finds
ResolveSeedWins(b, u, username, seed) ==
    IF Resident(b)
    THEN {[how |-> "resident",
           board |-> IF seed.given THEN [boards[b] EXCEPT !.project = seed.content]
                     ELSE boards[b],
           db |-> db]}
    ELSE IF HasRow(db, b)
    THEN {[how |-> "hydrated",
           board |-> [ownerId |-> fb.owner_id, ownerUsername |-> fb.owner_username,
                      project |-> IF seed.given THEN seed.content ELSE FromRows(fb),
                      connectedUsers |-> EmptyMap],
           db |-> db] : fb \in FullBoards(db, b)}
    ELSE {[how |-> "created",
           board |-> [ownerId |-> u, ownerUsername |-> username,
                      project |-> IF seed.given THEN seed.content ELSE EmptyProject,
                      connectedUsers |-> EmptyMap],
           db |-> IF seed.given /\ seed.name THEN createBoard(db, u, b) ELSE db]}

\* (variant) a join that makes the joiner the owner of a board it loads
ResolveJoinerOwns(b, u, username, seed) ==
    IF Resident(b)
    THEN {[how |-> "resident", board |-> boards[b], db |-> db]}
    ELSE IF HasRow(db, b)
    THEN {[how |-> "hydrated",
           board |-> [ownerId |-> u, ownerUsername |-> username,
                      project |-> FromRows(fb),
                      connectedUsers |-> EmptyMap],
           db |-> db] : fb \in FullBoards(db, b)}
    ELSE {[how |-> "created",
           board |-> [ownerId |-> u, ownerUsername |-> username,
                      project |-> IF seed.given THEN seed.content ELSE EmptyProject,
                      connectedUsers |-> EmptyMap],
           db |-> IF seed.given /\ seed.name THEN createBoard(db, u, b) ELSE db]}

\* the board the join resolves: resident, loaded from the store, or new
Resolve(b, u, username, seed) ==
    IF Resident(b)
    THEN {[how |-> "resident", board |-> boards[b], db |-> db]}
    ELSE IF HasRow(db, b)
    THEN {[how |-> "hydrated",
           board |-> [ownerId |-> fb.owner_id, ownerUsername |-> fb.owner_username,
                      project |-> FromRows(fb),
                      connectedUsers |-> EmptyMap],
           db |-> db] : fb \in FullBoards(db, b)}
    ELSE {[how |-> "created",
           board |-> [ownerId |-> u, ownerUsername |-> username,
                      project |-> IF seed.given THEN seed.content ELSE EmptyProject,
                      connectedUsers |-> EmptyMap],
           db |-> IF seed.given /\ seed.name THEN createBoard(db, u, b) ELSE db]}

BoardJoin(c, b, u, username, seed) ==
    /\ status[c] = "open"
    /\ currentBoardId' = [currentBoardId EXCEPT ![c] = b]
    /\ currentUserId' = [currentUserId EXCEPT ![c] = u]
    /\ rooms' = [rooms EXCEPT ![c] = @ \cup {b}]
    /\ \E r \in Resolve(b, u, username, seed) :
         LET userInfo == [userId |-> u, username |-> username, socketId |-> c]
             board == [r.board EXCEPT
                          !.connectedUsers = MapSet(@, u, userInfo)]
         IN /\ boards' = MapSet(boards, b, board)
            /\ db' = r.db
            /\ IF r.how = "resident" THEN UNCHANGED eventLog
               ELSE LogFrom(b, board.project)
            /\ Handled("board:join", c, b,
                   [userId |-> u, username |-> username, seed |-> seed], r.how,
                   SocketEmit(c, "board:sync",
                       [project |-> board.project, ownerId |-> board.ownerId,
                        ownerUsername |-> board.ownerUsername,
                        connectedUsers |-> RosterList(board)])
                   \o SocketTo(rooms', c, b, "user:joined",
                       [username |-> username, userId |-> u,
                        totalUsers |-> Cardinality(DOMAIN board.connectedUsers)])
                   \o IoTo(rooms', b, "users:updated",
                       [connectedUsers |-> RosterList(board)]))
    /\ firstOwner' = IF probe.owners /\ b \notin DOMAIN firstOwner
                     THEN MapSet(firstOwner, b,
                              [owner |-> last'.out[1].data.ownerId,
                               stored |-> HasRow(db', b)])
                     ELSE firstOwner
    /\ UNCHANGED <<status, project, probe, evicted, now, activityVars,
                   layoutVars, store>>

(***************************************************************************)
(* socket.on('disconnect').  The socket has left its rooms when the        *)
(* handler runs.                                                           *)
(***************************************************************************)
\* (variant) a disconnect that never evicts
KeepBoard(bs, cb, board) == MapSet(bs, cb, board)

\* if (board.connectedUsers.size === 0) boards.delete(currentBoardId)
EvictIfEmpty(bs, cb, board) ==
    IF DOMAIN board.connectedUsers = {} THEN MapDelete(bs, cb) ELSE MapSet(bs, cb, board)

Disconnect(c) ==
    /\ status[c] = "open"
    /\ status' = [status EXCEPT ![c] = "closed"]
    /\ rooms' = [rooms EXCEPT ![c] = {}]
    /\ LET cb == currentBoardId[c]
           cu == currentUserId[c]
       IN IF cb # NULL /\ cu # NULL /\ Resident(cb)
          THEN LET board == [boards[cb] EXCEPT
                                !.connectedUsers = MapDelete(@, cu)]
               IN /\ boards' = EvictIfEmpty(boards, cb, board)
                  /\ eventLog' = IF cb \in DOMAIN boards' THEN eventLog
                                 ELSE MapDelete(eventLog, cb)
                  /\ Handled("disconnect", c, cb, [userId |-> cu],
                         IF cb \in DOMAIN boards' THEN "left" ELSE "evicted",
                         SocketTo(rooms', c, cb, "user:left",
                             [username |-> IF cu \in DOMAIN boards[cb].connectedUsers
                                           THEN boards[cb].connectedUsers[cu].username
                                           ELSE NULL,
                              userId |-> cu,
                              totalUsers |-> Cardinality(DOMAIN board.connectedUsers)])
                         \o IoTo(rooms', cb, "users:updated",
                             [connectedUsers |-> RosterList(board)]))
          ELSE /\ UNCHANGED <<boards, eventLog>>
               /\ Handled("disconnect", c, cb, [userId |-> cu], "none", <<>>)
    \* the closure of a closed socket is dead
    /\ currentBoardId' = [currentBoardId EXCEPT ![c] = NULL]
    /\ currentUserId' = [currentUserId EXCEPT ![c] = NULL]
    /\ evicted' = IF probe.owners /\ last'.how = "evicted"
                  THEN MapSet(evicted, last'.boardId, boards[last'.boardId].project)
                  ELSE evicted
    /\ UNCHANGED <<db, project, probe, firstOwner, now, activityVars,
                   layoutVars, store>>

(***************************************************************************)
(* The six mutation handlers.  Each looks the board up, changes its        *)
(* project and relays the event to the room without the sender.            *)
(***************************************************************************)
\* (variant) handlers that relay without the if (board) guard
MutationUnguarded(c, b, kind, arg, newProject, ev) ==
    /\ status[c] = "open"
    /\ boards' = IF Resident(b) THEN [boards EXCEPT ![b].project = newProject]
                 ELSE boards
    /\ Logged(b, [ev |-> kind, data |-> arg])
    /\ Handled(kind, c, b, arg, IF Resident(b) THEN "applied" ELSE "no-board",
               SocketTo(rooms, c, b, ev, arg))
    /\ UNCHANGED <<status, currentBoardId, currentUserId, rooms, db, project, probe,
                   firstOwner, evicted, now, activityVars,
                   layoutVars, store>>

\* (variant) a mutation that also writes the new content to the store
MutationPersisting(c, b, kind, arg, newProject, ev) ==
    /\ status[c] = "open"
    /\ IF Resident(b)
       THEN /\ boards' = [boards EXCEPT ![b].project = newProject]
            /\ db' = IF HasRow(db, b)
                     THEN saveBoardState(db, b, newProject.stickies,
                                         newProject.canvasInstances)
                     ELSE db
            /\ Logged(b, [ev |-> kind, data |-> arg])
            /\ Handled(kind, c, b, arg, "applied", SocketTo(rooms, c, b, ev, arg))
       ELSE /\ UNCHANGED <<boards, db, eventLog>>
            /\ Handled(kind, c, b, arg, "no-board", <<>>)
    /\ UNCHANGED <<status, currentBoardId, currentUserId, rooms, project, probe,
                   firstOwner, evicted, now, activityVars,
                   layoutVars, store>>

Mutation(c, b, kind, arg, newProject, ev) ==
    /\ status[c] = "open"
    /\ IF Resident(b)
       THEN /\ boards' = [boards EXCEPT ![b].project = newProject]
            /\ Logged(b, [ev |-> kind, data |-> arg])
            /\ Handled(kind, c, b, arg, "applied", SocketTo(rooms, c, b, ev, arg))
       ELSE /\ UNCHANGED <<boards, eventLog>>
            /\ Handled(kind, c, b, arg, "no-board", <<>>)
    /\ UNCHANGED <<status, currentBoardId, currentUserId, rooms, db, project, probe,
                   firstOwner, evicted, now, activityVars,
                   layoutVars, store>>

\* board.project.stickies.push(sticky)
pushSticky(p, sticky) == [p EXCEPT !.stickies = Append(@, sticky)]

\* (variant) a sticky:update that overwrites the sticky with the updates
replaceSticky(p, stickyId, updates) ==
    LET stickyIndex == FindIndex(p.stickies, stickyId)
    IN IF stickyIndex # 0
       THEN [p EXCEPT !.stickies[stickyIndex] = updates]
       ELSE p

\* stickies[findIndex(id)] = { ...stickies[index], ...updates } when found
mergeSticky(p, stickyId, updates) ==
    LET stickyIndex == FindIndex(p.stickies, stickyId)
    IN IF stickyIndex # 0
       THEN [p EXCEPT !.stickies[stickyIndex] = Spread(@, updates)]
       ELSE p

\* (variant) a sticky:delete with the first filter only
filterStickyOnly(p, stickyId) ==
    [p EXCEPT !.stickies = SelectSeq(@, LAMBDA s : s.id # stickyId)]

\* the two filters of sticky:delete
filterSticky(p, stickyId) ==
    [stickies |-> SelectSeq(p.stickies, LAMBDA s : s.id # stickyId),
     canvasInstances |->
         SelectSeq(p.canvasInstances, LAMBDA ci : ci.stickyId # stickyId)]

\* board.project.canvasInstances.push(instance)
pushInstance(p, instance) == [p EXCEPT !.canvasInstances = Append(@, instance)]

\* (variant) an instance:update that overwrites the instance with the updates
replaceInstance(p, instanceId, updates) ==
    LET instanceIndex == FindIndex(p.canvasInstances, instanceId)
    IN IF instanceIndex # 0
       THEN [p EXCEPT !.canvasInstances[instanceIndex] = updates]
       ELSE p

\* canvasInstances[findIndex(id)] = { ...canvasInstances[index], ...updates }
mergeInstance(p, instanceId, updates) ==
    LET instanceIndex == FindIndex(p.canvasInstances, instanceId)
    IN IF instanceIndex # 0
       THEN [p EXCEPT !.canvasInstances[instanceIndex] = Spread(@, updates)]
       ELSE p

\* the filter of instance:delete
filterInstance(p, instanceId) ==
    [p EXCEPT !.canvasInstances = SelectSeq(@, LAMBDA ci : ci.id # instanceId)]

\* the project a handler works on; the handlers read it only under if (board)
ProjectOf(b) == IF Resident(b) THEN boards[b].project ELSE EmptyProject

\* socket.on('sticky:create')
StickyCreate(c, b, sticky) ==
    Mutation(c, b, "sticky:create", [sticky |-> sticky],
        pushSticky(ProjectOf(b), sticky), "sticky:created")

\* socket.on('sticky:update')
StickyUpdate(c, b, stickyId, updates) ==
    Mutation(c, b, "sticky:update", [stickyId |-> stickyId, updates |-> updates],
        mergeSticky(ProjectOf(b), stickyId, updates), "sticky:updated")

\* socket.on('sticky:delete')
StickyDelete(c, b, stickyId) ==
    Mutation(c, b, "sticky:delete", [stickyId |-> stickyId],
        filterSticky(ProjectOf(b), stickyId), "sticky:deleted")

\* socket.on('instance:create')
InstanceCreate(c, b, instance) ==
    Mutation(c, b, "instance:create", [instance |-> instance],
        pushInstance(ProjectOf(b), instance), "instance:created")

\* socket.on('instance:update')
InstanceUpdate(c, b, instanceId, updates) ==
    Mutation(c, b, "instance:update", [instanceId |-> instanceId, updates |-> updates],
        mergeInstance(ProjectOf(b), instanceId, updates), "instance:updated")

\* socket.on('instance:delete')
InstanceDelete(c, b, instanceId) ==
    Mutation(c, b, "instance:delete", [instanceId |-> instanceId],
        filterInstance(ProjectOf(b), instanceId), "instance:deleted")

(***************************************************************************)
(* socket.on('project:save')                                               *)
(***************************************************************************)
\* (variant) a save that checks residence only
MaySaveAnyone(c, b) == Resident(b)

\* board && currentUserId === board.ownerId
MaySave(c, b) == Resident(b) /\ currentUserId[c] = boards[b].ownerId

ProjectSave(c, b, snapshot) ==
    /\ status[c] = "open"
    /\ IF MaySave(c, b)
       THEN /\ boards' = [boards EXCEPT ![b].project = snapshot]
            /\ db' = IF HasRow(db, b)
                     THEN saveBoardState(db, b, snapshot.stickies, snapshot.canvasInstances)
                     ELSE db
            /\ LogFrom(b, snapshot)
            /\ Handled("project:save", c, b, [project |-> snapshot], "saved",
                   SocketEmit(c, "project:saved", [success |-> TRUE]))
       ELSE /\ UNCHANGED <<boards, db, eventLog>>
            /\ Handled("project:save", c, b, [project |-> snapshot], "unauthorized",
                   SocketEmit(c, "board:error", [code |-> "UNAUTHORIZED"]))
    /\ UNCHANGED <<status, currentBoardId, currentUserId, rooms, project, probe,
                   firstOwner, evicted, now, activityVars,
                   layoutVars, store>>

(***************************************************************************)
(* socket.on('sticky:activity') and socket.on('sticky:activity:clear'):    *)
(* relays to the room of the boardId the event carries, stamped with the   *)
(* server's clock.                                                         *)
(***************************************************************************)
StickyActivity(c, b, instanceId, action, username, userId) ==
    /\ status[c] = "open"
    /\ Handled("sticky:activity", c, b,
               [instanceId |-> instanceId, action |-> action, username |-> username,
                userId |-> userId],
               "relayed",
               SocketTo(rooms, c, b, "sticky:activity",
                   [instanceId |-> instanceId, userId |-> userId,
                    username |-> username, action |-> action, timestamp |-> now]))
    /\ UNCHANGED <<boards, status, currentBoardId, currentUserId, rooms, db, project,
                   eventLog, probe, firstOwner, evicted, now, activityVars,
                   layoutVars, store>>

StickyActivityClear(c, b, instanceId) ==
    /\ status[c] = "open"
    /\ Handled("sticky:activity:clear", c, b, [instanceId |-> instanceId], "relayed",
               SocketTo(rooms, c, b, "sticky:activity:clear",
                   [instanceId |-> instanceId]))
    /\ UNCHANGED <<boards, status, currentBoardId, currentUserId, rooms, db, project,
                   eventLog, probe, firstOwner, evicted, now, activityVars,
                   layoutVars, store>>

(***************************************************************************)
(* The client store: applyRemoteUpdate on the project's content.           *)
(***************************************************************************)
applyRemoteUpdate(p, eventType, data) ==
    CASE eventType = "sticky:created" ->
           [p EXCEPT !.stickies = Append(@, data.sticky)]
      [] eventType = "sticky:updated" ->
           [p EXCEPT !.stickies =
               [i \in 1..Len(@) |->
                   IF @[i].id = data.stickyId THEN Spread(@[i], data.updates) ELSE @[i]]]
      [] eventType = "sticky:deleted" ->
           [stickies |-> SelectSeq(p.stickies, LAMBDA s : s.id # data.stickyId),
            canvasInstances |->
                SelectSeq(p.canvasInstances, LAMBDA ci : ci.stickyId # data.stickyId)]
      [] eventType = "instance:created" ->
           [p EXCEPT !.canvasInstances = Append(@, data.instance)]
      [] eventType = "instance:updated" ->
           [p EXCEPT !.canvasInstances =
               [i \in 1..Len(@) |->
                   IF @[i].id = data.instanceId THEN Spread(@[i], data.updates) ELSE @[i]]]
      [] eventType = "instance:deleted" ->
           [p EXCEPT !.canvasInstances = SelectSeq(@, LAMBDA ci : ci.id # data.instanceId)]
      [] eventType = "board:sync" -> Spread(p, data.project)
      [] OTHER -> p

\* the subscriptions of useCollaboration that reach applyRemoteUpdate
StoreEvents == {"board:sync", "sticky:created", "sticky:updated", "sticky:deleted",
                "instance:created", "instance:updated", "instance:deleted"}

(***************************************************************************)
(* The client store: the undo history and the _skipBroadcast flag.  The    *)
(* historyIndex is the index of the code, counted from 0.                  *)
(***************************************************************************)
MAX_HISTORY == 50

\* the store after construction
InitialStore ==
    [history |-> <<EmptyProject>>, historyIndex |-> 0, canUndo |-> FALSE,
     canRedo |-> FALSE, skipBroadcast |-> FALSE]

\* (variant) an _addToHistory that never drops the oldest entry
addToHistoryUnlimited(st, newProject) ==
    LET newHistory == Append(SubSeq(st.history, 1, st.historyIndex + 1), newProject)
        newIndex == Len(newHistory) - 1
    IN [st EXCEPT !.history = newHistory, !.historyIndex = newIndex,
                  !.canUndo = newIndex > 0, !.canRedo = FALSE]

\* _addToHistory(newProject): the history fields it sets
addToHistory(st, newProject) ==
    LET pushed == Append(SubSeq(st.history, 1, st.historyIndex + 1), newProject)
        newHistory == IF Len(pushed) > MAX_HISTORY THEN Tail(pushed) ELSE pushed
        newIndex == Len(newHistory) - 1
    IN [st EXCEPT !.history = newHistory, !.historyIndex = newIndex,
                  !.canUndo = newIndex > 0, !.canRedo = FALSE]

\* undo(): the history fields it sets; nothing when historyIndex <= 0
undo(st) ==
    IF st.historyIndex <= 0 THEN st
    ELSE LET newIndex == st.historyIndex - 1
         IN [st EXCEPT !.historyIndex = newIndex, !.canUndo = newIndex > 0,
                       !.canRedo = TRUE]

\* redo(): the history fields it sets; nothing at the end of the history
redo(st) ==
    IF st.historyIndex >= Len(st.history) - 1 THEN st
    ELSE LET newIndex == st.historyIndex + 1
         IN [st EXCEPT !.historyIndex = newIndex, !.canUndo = TRUE,
                       !.canRedo = newIndex < Len(st.history) - 1]

\* loadProject(project): the history fields it sets
loadProject(st, p) ==
    [st EXCEPT !.history = <<p>>, !.historyIndex = 0, !.canUndo = FALSE,
               !.canRedo = FALSE]

\* the argument of applyRemoteUpdate is <<>> for a missing payload and
\* <<data>> for the payload data; a case that reads a field of a missing
\* payload throws
Throws(eventType, payload) == eventType \in StoreEvents /\ payload = <<>>

\* (variant) a flag that is reset after the switch instead of in finally
resetAfterSwitch(st, thrown) ==
    IF thrown THEN st ELSE [st EXCEPT !.skipBroadcast = FALSE]

\* finally { set({ _skipBroadcast: false }) }
resetInFinally(st, thrown) == [st EXCEPT !.skipBroadcast = FALSE]

\* applyRemoteUpdate(eventType, data) on the fields of the store other than
\* the project: the flag is set, 'board:sync' starts a new history, and the
\* flag is reset
storeAfterRemote(st, p, eventType, payload) ==
    LET flagged == [st EXCEPT !.skipBroadcast = TRUE]
        thrown == Throws(eventType, payload)
        body == IF ~thrown /\ eventType = "board:sync"
                THEN [flagged EXCEPT
                         !.history = <<applyRemoteUpdate(p, eventType, payload[1])>>,
                         !.historyIndex = 0, !.canUndo = FALSE, !.canRedo = FALSE]
                ELSE flagged
    IN resetInFinally(body, thrown)

\* the store of client c is recorded while probe.store is set
StoreSet(c, st) == store' = [store EXCEPT ![c] = IF probe.store THEN st ELSE @]

\* applyRemoteUpdate(eventType, data) on the store of client c
RemoteApplied(c, eventType, payload) ==
    /\ project' = [project EXCEPT ![c] =
                       IF Throws(eventType, payload) \/ payload = <<>> THEN @
                       ELSE applyRemoteUpdate(@, eventType, payload[1])]
    /\ StoreSet(c, storeAfterRemote(store[c], project[c], eventType, payload))

\* setStickyActivity(instanceId, activity): the new stickyActivities map.
\* The activity is <<>> for null and <<a>> for the activity a.
setStickyActivity(acts, instanceId, activity) ==
    IF activity = <<>> THEN MapDelete(acts, instanceId)
    ELSE MapSet(acts, instanceId, activity[1])

\* the setTimeout(..., 3000) that setStickyActivity schedules for an
\* activity that is not null; equal delays fire in the order they were set
Scheduled(pending, instanceId, activity) ==
    IF activity = <<>> THEN pending
    ELSE Append(pending, [instanceId |-> instanceId, activity |-> activity[1]])

\* the argument the two activity subscriptions pass to setStickyActivity
ActivityOf(m) == IF m.ev = "sticky:activity" THEN <<m.data>> ELSE <<>>

ActivityEvents == {"sticky:activity", "sticky:activity:clear"}

\* a followed client handles the next event the server sent it
ClientReceive(c) ==
    /\ c \in probe.clients
    /\ status[c] = "open"
    /\ inbox[c] # <<>>
    /\ LET m == Head(inbox[c])
       IN /\ IF m.ev \in StoreEvents
             THEN RemoteApplied(c, m.ev, <<m.data>>)
             ELSE UNCHANGED <<project, store>>
          /\ IF m.ev \in ActivityEvents
             THEN /\ stickyActivities' = [stickyActivities EXCEPT ![c] =
                          setStickyActivity(@, m.data.instanceId, ActivityOf(m))]
                  /\ timers' = [timers EXCEPT ![c] =
                          Scheduled(@, m.data.instanceId, ActivityOf(m))]
             ELSE UNCHANGED activityVars
    /\ inbox' = [inbox EXCEPT ![c] = Tail(@)]
    /\ UNCHANGED <<boards, status, currentBoardId, currentUserId, rooms, db, last,
                   eventLog, probe, firstOwner, evicted, now, outbox,
                   layoutVars>>

\* the store's updateSticky(id, updates) on the local content
updateSticky(p, id, updates) ==
    [p EXCEPT !.stickies =
        [i \in 1..Len(@) |-> IF @[i].id = id THEN Spread(@[i], updates) ELSE @[i]]]

\* the user of followed client c edits a sticky it shows: the store
\* applies the change locally and emits sticky:update for its board
ClientUpdateSticky(c, b, id, updates) ==
    /\ c \in probe.clients
    /\ status[c] = "open"
    /\ b \in rooms[c]
    /\ \E i \in 1..Len(project[c].stickies) : project[c].stickies[i].id = id
    /\ project' = [project EXCEPT ![c] = updateSticky(@, id, updates)]
    /\ StoreSet(c, addToHistory(store[c], updateSticky(project[c], id, updates)))
    /\ outbox' = [outbox EXCEPT ![c] =
                     IF store[c].skipBroadcast THEN @
                     ELSE Append(@, [ev |-> "sticky:update", boardId |-> b,
                                     data |-> [stickyId |-> id, updates |-> updates]])]
    /\ UNCHANGED <<boards, status, currentBoardId, currentUserId, rooms, db, last, inbox,
                   eventLog, probe, firstOwner, evicted, now, activityVars,
                   layoutVars>>

\* the store's undo() on client c: the project of the entry before
Undo(c) ==
    /\ c \in probe.clients
    /\ project' = [project EXCEPT ![c] =
                       IF store[c].historyIndex <= 0 THEN @
                       ELSE store[c].history[undo(store[c]).historyIndex + 1]]
    /\ StoreSet(c, undo(store[c]))
    /\ UNCHANGED <<boards, status, currentBoardId, currentUserId, rooms, db, last, inbox,
                   eventLog, probe, firstOwner, evicted, now, activityVars, outbox,
                   layoutVars>>

\* the store's redo() on client c: the project of the entry after
Redo(c) ==
    /\ c \in probe.clients
    /\ project' = [project EXCEPT ![c] =
                       IF store[c].historyIndex >= Len(store[c].history) - 1 THEN @
                       ELSE store[c].history[redo(store[c]).historyIndex + 1]]
    /\ StoreSet(c, redo(store[c]))
    /\ UNCHANGED <<boards, status, currentBoardId, currentUserId, rooms, db, last, inbox,
                   eventLog, probe, firstOwner, evicted, now, activityVars, outbox,
                   layoutVars>>

\* the store's loadProject(p) on client c while it is on no board
LoadProject(c, p) ==
    /\ c \in probe.clients
    /\ rooms[c] = {}
    /\ project' = [project EXCEPT ![c] = p]
    /\ StoreSet(c, loadProject(store[c], p))
    /\ UNCHANGED <<boards, status, currentBoardId, currentUserId, rooms, db, last, inbox,
                   eventLog, probe, firstOwner, evicted, now, activityVars, outbox,
                   layoutVars>>

\* applyRemoteUpdate called on the store of client c with any arguments
ApplyRemoteUpdate(c, eventType, payload) ==
    /\ c \in probe.clients
    /\ RemoteApplied(c, eventType, payload)
    /\ UNCHANGED <<boards, status, currentBoardId, currentUserId, rooms, db, last, inbox,
                   eventLog, probe, firstOwner, evicted, now, activityVars, outbox,
                   layoutVars>>

\* (variant) an expiry that never removes
ExpiresNever(current, activity) == FALSE

\* (variant) an expiry that compares nothing
ExpiresAlways(current, activity) == TRUE

\* current && current.timestamp === activity.timestamp
Expires(current, activity) ==
    current # <<>> /\ current[1].timestamp = activity.timestamp

\* the callback of the oldest pending timeout of client c runs
TimerFires(c) ==
    /\ c \in probe.clients
    /\ timers[c] # <<>>
    /\ LET t == Head(timers[c])
           acts == stickyActivities[c]
           current == IF t.instanceId \in DOMAIN acts THEN <<acts[t.instanceId]>>
                      ELSE <<>>
       IN stickyActivities' = [stickyActivities EXCEPT ![c] =
              IF Expires(current, t.activity)
              THEN setStickyActivity(acts, t.instanceId, <<>>)
              ELSE acts]
    /\ timers' = [timers EXCEPT ![c] = Tail(@)]
    /\ UNCHANGED <<boards, status, currentBoardId, currentUserId, rooms, db, last, inbox,
                   project, eventLog, probe, firstOwner, evicted, now, outbox,
                   layoutVars, store>>

\* Date.now() of the server advances
Tick ==
    /\ now < MaxClock
    /\ now' = now + 1
    /\ UNCHANGED <<boards, status, currentBoardId, currentUserId, rooms, db, last, inbox,
                   project, eventLog, probe, firstOwner, evicted, activityVars, outbox,
                   layoutVars, store>>

(***************************************************************************)
(* The REST routes of routes/auth.ts behind middleware/auth.ts.  They run  *)
(* on no socket; last records the route, its token and what                *)
(* validateSession returned.                                               *)
(***************************************************************************)
\* the branch validateSession takes for the token
Branch(d, token, t) ==
    IF token \notin DOMAIN d.sessions THEN "no-session"
    ELSE IF t > d.sessions[token].expires_at THEN "expired"
    ELSE "valid"

\* POST /api/auth/login for a user whose password matches: createSession.
\* Two tokens drawn from randomBytes(32) differ; the model's token is the
\* user with the time of the login.
Login(u) ==
    /\ u \in RegisteredUsers
    /\ [user |-> u, issued |-> now] \notin DOMAIN db.sessions
    /\ db' = createSession(db, u, [user |-> u, issued |-> now], now)
    /\ last' = [kind |-> "login", conn |-> 0, boardId |-> NULL,
                arg |-> [token |-> [user |-> u, issued |-> now]], how |-> "created",
                out |-> <<>>]
    /\ UNCHANGED <<boards, status, currentBoardId, currentUserId, rooms, inbox, project,
                   eventLog, probe, firstOwner, evicted, now, activityVars, outbox,
                   layoutVars, store>>

\* authenticateToken for a request that carries the token (GET
\* /api/auth/session): validateSession, then 401 or next()
AuthenticateToken(token) ==
    /\ db' = validateSession(db, token, now).db
    /\ last' = [kind |-> "authenticateToken", conn |-> 0, boardId |-> NULL,
                arg |-> [token |-> token], how |-> Branch(db, token, now),
                out |-> validateSession(db, token, now).session]
    /\ UNCHANGED <<boards, status, currentBoardId, currentUserId, rooms, inbox, project,
                   eventLog, probe, firstOwner, evicted, now, activityVars, outbox,
                   layoutVars, store>>

\* POST /api/auth/logout: authenticateToken, then deleteSession(token) when
\* the request passed
Logout(token) ==
    /\ db' = IF validateSession(db, token, now).session = <<>>
             THEN validateSession(db, token, now).db
             ELSE deleteSession(validateSession(db, token, now).db, token)
    /\ last' = [kind |-> "logout", conn |-> 0, boardId |-> NULL,
                arg |-> [token |-> token], how |-> Branch(db, token, now),
                out |-> validateSession(db, token, now).session]
    /\ UNCHANGED <<boards, status, currentBoardId, currentUserId, rooms, inbox, project,
                   eventLog, probe, firstOwner, evicted, now, activityVars, outbox,
                   layoutVars, store>>

\* Date.now() of the server advances, without the limit of Tick
Elapse ==
    /\ now' = now + 1
    /\ UNCHANGED <<boards, status, currentBoardId, currentUserId, rooms, db, last, inbox,
                   project, eventLog, probe, firstOwner, evicted, activityVars, outbox,
                   layoutVars, store>>

(***************************************************************************)
(* The layout validator (validateAndAdjustLayout and its helpers).  A      *)
(* StickyPosition is {stickyText, x, y}; the coordinates are integers.     *)
(***************************************************************************)
CANVAS_CONFIG ==
    [viewportWidth |-> 1200, viewportHeight |-> 800,
     marginLeft |-> 80, marginTop |-> 80, marginRight |-> 80, marginBottom |-> 80,
     stickyWidth |-> 200, stickyHeight |-> 120,
     horizontalGap |-> 40, verticalGap |-> 40, groupGap |-> 80]

WORKING_AREA ==
    [startX |-> CANVAS_CONFIG.marginLeft,
     endX |-> CANVAS_CONFIG.viewportWidth - CANVAS_CONFIG.marginRight,
     startY |-> CANVAS_CONFIG.marginTop,
     endY |-> CANVAS_CONFIG.viewportHeight - CANVAS_CONFIG.marginBottom,
     width |-> CANVAS_CONFIG.viewportWidth - CANVAS_CONFIG.marginLeft
                   - CANVAS_CONFIG.marginRight,
     height |-> CANVAS_CONFIG.viewportHeight - CANVAS_CONFIG.marginTop
                   - CANVAS_CONFIG.marginBottom]

\* Math.floor((width + horizontalGap) / (stickyWidth + horizontalGap))
STICKIES_PER_ROW ==
    (WORKING_AREA.width + CANVAS_CONFIG.horizontalGap)
        \div (CANVAS_CONFIG.stickyWidth + CANVAS_CONFIG.horizontalGap)

Max(a, b) == IF a >= b THEN a ELSE b
Min(a, b) == IF a <= b THEN a ELSE b
Abs(a) == IF a >= 0 THEN a ELSE 0 - a

\* [...arr].sort((a, b) => a[f] - b[f]): a stable sort
RECURSIVE SortBy(_, _)
SortBy(arr, f) ==
    IF arr = <<>> THEN <<>>
    ELSE LET t == SortBy(SubSeq(arr, 1, Len(arr) - 1), f)
             e == arr[Len(arr)]
             k == Cardinality({i \in 1..Len(t) : t[i][f] <= e[f]})
         IN SubSeq(t, 1, k) \o <<e>> \o SubSeq(t, k + 1, Len(t))

\* group.reduce((sum, item) => sum + item.y, 0)
RECURSIVE SumY(_)
SumY(group) == IF group = <<>> THEN 0 ELSE group[1].y + SumY(Tail(group))

\* Math.abs(avgY - pos.y) < 60, with avgY = SumY(group) / group.length
NearRow(group, pos) ==
    Abs(SumY(group) - pos.y * Len(group)) < 60 * Len(group)

\* sorted.forEach(pos => ...) of groupIntoRows, from index i on
RECURSIVE CollectRows(_, _, _)
CollectRows(groups, sorted, i) ==
    IF i > Len(sorted) THEN groups
    ELSE LET pos == sorted[i]
             near == {g \in 1..Len(groups) : NearRow(groups[g], pos)}
         IN IF near # {}
            THEN LET g == CHOOSE x \in near : \A z \in near : x <= z
                 IN CollectRows([groups EXCEPT ![g] = Append(@, pos)], sorted, i + 1)
            ELSE CollectRows(Append(groups, <<pos>>), sorted, i + 1)

groupIntoRows(ps) ==
    LET groups == CollectRows(<<>>, SortBy(ps, "y"), 1)
    IN [g \in 1..Len(groups) |-> SortBy(groups[g], "x")]

\* slices of at most STICKIES_PER_ROW items
splitIntoRows(items) ==
    [r \in 1..((Len(items) + STICKIES_PER_ROW - 1) \div STICKIES_PER_ROW) |->
        SubSeq(items, (r - 1) * STICKIES_PER_ROW + 1,
               Min(r * STICKIES_PER_ROW, Len(items)))]

\* (variant) no safety clamp
noClamp(lo, v, hi) == v

\* Math.max(lo, Math.min(v, hi))
clamp(lo, v, hi) == Max(lo, Min(v, hi))

\* row.forEach((item, index) => ...) at height y
LayRow(row, y) ==
    LET rowWidth == Len(row) * CANVAS_CONFIG.stickyWidth
                    + (Len(row) - 1) * CANVAS_CONFIG.horizontalGap
        startX == IF rowWidth <= WORKING_AREA.width
                  THEN WORKING_AREA.startX + (WORKING_AREA.width - rowWidth) \div 2
                  ELSE WORKING_AREA.startX
    IN [index \in 1..Len(row) |->
          [row[index] EXCEPT
             !.x = clamp(WORKING_AREA.startX,
                         startX + (index - 1) * (CANVAS_CONFIG.stickyWidth
                                                 + CANVAS_CONFIG.horizontalGap),
                         WORKING_AREA.endX - CANVAS_CONFIG.stickyWidth),
             !.y = clamp(WORKING_AREA.startY, y,
                         WORKING_AREA.endY - CANVAS_CONFIG.stickyHeight)]]

\* rowGroups.forEach(row => ...) from row r on, starting at height y
RECURSIVE LayRows(_, _, _)
LayRows(rows, r, y) ==
    IF r > Len(rows) THEN <<>>
    ELSE LayRow(rows[r], y)
         \o LayRows(rows, r + 1,
                    y + CANVAS_CONFIG.stickyHeight + CANVAS_CONFIG.verticalGap)

\* groups.forEach((group, groupIndex) => ...) from group g on, at currentY
RECURSIVE LayGroups(_, _, _)
LayGroups(groups, g, currentY) ==
    IF g > Len(groups) THEN <<>>
    ELSE LET rows == splitIntoRows(groups[g])
             afterRows == currentY + Len(rows) * (CANVAS_CONFIG.stickyHeight
                                                  + CANVAS_CONFIG.verticalGap)
             nextY == IF g < Len(groups)
                      THEN afterRows + CANVAS_CONFIG.groupGap - CANVAS_CONFIG.verticalGap
                      ELSE afterRows
         IN LayRows(rows, 1, currentY) \o LayGroups(groups, g + 1, nextY)

applyProfessionalLayout(groups) == LayGroups(groups, 1, WORKING_AREA.startY)

validateAndAdjustLayout(ps) ==
    IF Len(ps) = 0 THEN <<>> ELSE applyProfessionalLayout(groupIntoRows(ps))

isWithinBounds(x, y) ==
    /\ x >= WORKING_AREA.startX
    /\ x + CANVAS_CONFIG.stickyWidth <= WORKING_AREA.endX + CANVAS_CONFIG.marginRight
    /\ y >= WORKING_AREA.startY
    /\ y + CANVAS_CONFIG.stickyHeight <= CANVAS_CONFIG.viewportHeight

checkOverlap(pos1, pos2) ==
    /\ Abs(pos1.x - pos2.x) < CANVAS_CONFIG.stickyWidth
    /\ Abs(pos1.y - pos2.y) < CANVAS_CONFIG.stickyHeight

\* a caller passes positions to the validator and gets its result
ValidateLayout ==
    /\ laid = <<>>
    /\ laid' = <<validateAndAdjustLayout(positions)>>
    /\ UNCHANGED <<boards, status, currentBoardId, currentUserId, rooms, db, last, inbox,
                   project, eventLog, probe, firstOwner, evicted, now, activityVars,
                   outbox, positions, store>>

(***************************************************************************)
(* Specifications.                                                         *)
(***************************************************************************)
InitExceptLayout(p) ==
    /\ boards = EmptyMap
    /\ status = [c \in Conns |-> "new"]
    /\ currentBoardId = [c \in Conns |-> NULL]
    /\ currentUserId = [c \in Conns |-> NULL]
    /\ rooms = [c \in Conns |-> {}]
    /\ db = EmptyDb
    /\ last = [kind |-> "listen", conn |-> 0, boardId |-> NULL, arg |-> <<>>,
               how |-> "", out |-> <<>>]
    /\ inbox = [c \in Conns |-> <<>>]
    /\ project = [c \in Conns |-> EmptyProject]
    /\ eventLog = EmptyMap
    /\ probe = p
    /\ firstOwner = EmptyMap
    /\ evicted = EmptyMap
    /\ now = 0
    /\ stickyActivities = [c \in Conns |-> EmptyMap]
    /\ timers = [c \in Conns |-> <<>>]
    /\ outbox = [c \in Conns |-> <<>>]

InitWith(p) ==
    /\ InitExceptLayout(p)
    /\ positions = <<>>
    /\ laid = <<>>
    /\ store = [c \in Conns |-> InitialStore]

NoProbe == [clients |-> {}, log |-> FALSE, owners |-> FALSE, store |-> FALSE]
Init == InitWith(NoProbe)

\* The sticky and the instance a small specification sends, and its patches.
OneSticky == NewSticky("s1")
OneInstance == NewInstance("i1", "s1")
SamePatches == [sticky |-> [text |-> "a"], instance |-> [x |-> 0]]
NamedSeed == [given |-> TRUE, name |-> TRUE, content |-> P0]

(***************************************************************************)
(* Spec: one board and NumConns sockets, every handler; the content of the *)
(* board stays among Snapshots.                                            *)
(***************************************************************************)
SmallContent == \A b \in DOMAIN boards : boards[b].project \in Snapshots

Next ==
    \/ \E c \in Conns : Connect(c)
    \/ \E c \in Conns, u \in Users, seed \in {NoSeed, NamedSeed} :
           BoardJoin(c, "b1", u, SessionName(u), seed)
    \/ \E c \in Conns : Disconnect(c)
    \/ \E c \in Conns : StickyCreate(c, "b1", OneSticky) /\ SmallContent'
    \/ \E c \in Conns : StickyUpdate(c, "b1", "s1", SamePatches.sticky)
    \/ \E c \in Conns : StickyDelete(c, "b1", "s1")
    \/ \E c \in Conns : InstanceCreate(c, "b1", OneInstance) /\ SmallContent'
    \/ \E c \in Conns : InstanceUpdate(c, "b1", "i1", SamePatches.instance)
    \/ \E c \in Conns : InstanceDelete(c, "b1", "i1")
    \/ \E c \in Conns : ProjectSave(c, "b1", P0)
    \/ \E c \in Conns : StickyActivity(c, "b1", "i1", "moving", "user1", "u1")
    \/ \E c \in Conns : StickyActivityClear(c, "b1", "i1")

Spec == Init /\ [][Next]_vars

(***************************************************************************)
(* SpecBoards: two boards and one socket fewer, every handler; the boards  *)
(* stay empty.                                                             *)
(***************************************************************************)
NoContent == \A b \in DOMAIN boards : boards[b].project = EmptyProject
FewConns == 1..(NumConns - 1)

NextBoards ==
    \/ \E c \in FewConns : Connect(c)
    \/ \E c \in FewConns, b \in Boards, u \in Users : BoardJoin(c, b, u, SessionName(u), NoSeed)
    \/ \E c \in FewConns : Disconnect(c)
    \/ \E c \in FewConns, b \in Boards : StickyCreate(c, b, OneSticky) /\ NoContent'
    \/ \E c \in FewConns, b \in Boards : StickyUpdate(c, b, "s1", SamePatches.sticky)
    \/ \E c \in FewConns, b \in Boards : StickyDelete(c, b, "s1")
    \/ \E c \in FewConns, b \in Boards : InstanceCreate(c, b, OneInstance) /\ NoContent'
    \/ \E c \in FewConns, b \in Boards :
           InstanceUpdate(c, b, "i1", SamePatches.instance)
    \/ \E c \in FewConns, b \in Boards : InstanceDelete(c, b, "i1")
    \/ \E c \in FewConns, b \in Boards : ProjectSave(c, b, P0)

SpecBoards == Init /\ [][NextBoards]_vars

(***************************************************************************)
(* SpecContent: one board and one socket fewer, with content up to         *)
(* MaxStickies stickies and MaxInstances instances.  The run of mutation   *)
(* events of the board is recorded.                                        *)
(***************************************************************************)
ContentProbe == [clients |-> {}, log |-> TRUE, owners |-> FALSE, store |-> FALSE]
InitContent == InitWith(ContentProbe)

ContentBound ==
    /\ \A b \in DOMAIN boards :
          /\ Len(boards[b].project.stickies) <= MaxStickies
          /\ Len(boards[b].project.canvasInstances) <= MaxInstances
    /\ \A b \in DOMAIN eventLog : Len(eventLog[b].events) <= MaxLog
    /\ \A c \in Conns : Len(inbox[c]) <= MaxInbox

NextContent ==
    \/ \E c \in FewConns : Connect(c)
    \/ BoardJoin(1, "b1", "u1", SessionName("u1"), NamedSeed) /\ ContentBound'
    \/ BoardJoin(NumConns - 1, "b1", "ux", SessionName("ux"), NoSeed) /\ ContentBound'
    \/ \E c \in FewConns : Disconnect(c) /\ ContentBound'
    \/ \E c \in FewConns, s \in StickyIds :
           StickyCreate(c, "b1", NewSticky(s)) /\ ContentBound'
    \/ \E c \in FewConns, updates \in {[text |-> "b"], [text |-> "c"]} :
           StickyUpdate(c, "b1", "s1", updates) /\ ContentBound'
    \/ \E c \in FewConns : StickyDelete(c, "b1", "s1") /\ ContentBound'
    \/ \E c \in FewConns, i \in {<<"i1", "s1">>, <<"i2", "s2">>} :
           InstanceCreate(c, "b1", NewInstance(i[1], i[2])) /\ ContentBound'
    \/ \E c \in FewConns : InstanceUpdate(c, "b1", "i1", [x |-> 1]) /\ ContentBound'
    \/ \E c \in FewConns : InstanceDelete(c, "b1", "i1") /\ ContentBound'
    \/ ProjectSave(1, "b1", P2) /\ ContentBound'


SpecContent == InitContent /\ [][NextContent]_vars

(***************************************************************************)
(* SpecClient: the handlers on one board, sent by the first socket; the    *)
(* last socket is followed as a client that applies what the server sends  *)
(* it.  The run of mutation events of the board is recorded.               *)
(***************************************************************************)
Follower == NumConns - 1
ClientProbe == [clients |-> {Follower}, log |-> TRUE, owners |-> FALSE, store |-> FALSE]
InitClient == InitWith(ClientProbe)

ClientBound ==
    /\ Len(project[Follower].stickies) <= MaxStickies
    /\ Len(project[Follower].canvasInstances) <= MaxInstances

NextClient ==
    \/ \E c \in FewConns : Connect(c)
    \/ BoardJoin(1, "b1", "u1", SessionName("u1"), NamedSeed) /\ ContentBound'
    \/ BoardJoin(Follower, "b1", "ux", SessionName("ux"), NoSeed) /\ ContentBound'
    \/ \E c \in FewConns : Disconnect(c)
    \/ StickyCreate(1, "b1", NewSticky("s1")) /\ ContentBound'
    \/ StickyDelete(1, "b1", "s1") /\ ContentBound'
    \/ \E i \in {<<"i1", "s1">>, <<"i2", "s2">>} :
           InstanceCreate(1, "b1", NewInstance(i[1], i[2])) /\ ContentBound'
    \/ StickyUpdate(1, "b1", "s1", [text |-> "b"]) /\ ContentBound'
    \/ InstanceUpdate(1, "b1", "i1", [x |-> 1]) /\ ContentBound'
    \/ InstanceDelete(1, "b1", "i1") /\ ContentBound'
    \/ ProjectSave(1, "b1", P2) /\ ContentBound'
    \/ ClientReceive(Follower) /\ ClientBound'

SpecClient == InitClient /\ [][NextClient]_vars

(***************************************************************************)
(* Properties.                                                             *)
(***************************************************************************)
MutationKinds == {"sticky:create", "sticky:update", "sticky:delete",
                  "instance:create", "instance:update", "instance:delete"}

\* the event a mutation handler relays
Relayed(kind) ==
    CASE kind = "sticky:create" -> "sticky:created"
      [] kind = "sticky:update" -> "sticky:updated"
      [] kind = "sticky:delete" -> "sticky:deleted"
      [] kind = "instance:create" -> "instance:created"
      [] kind = "instance:update" -> "instance:updated"
      [] kind = "instance:delete" -> "instance:deleted"

\* the deliveries of the last handler to socket c
DeliveriesTo(c) == SelectSeq(last.out, LAMBDA m : m.to = c)

\* a handler ran in this step (a step that repeats the same event on the
\* same state changes nothing at all)
HandlerRan == last' # last

\* C1: a mutation event the server accepts for a resident board is relayed
\* exactly once to every other socket joined to the board (in its room), and
\* nothing at all is sent to the socket it came from.
C1_RelayedOnceToOthers ==
    (last.kind \in MutationKinds /\ last.how = "applied") =>
        \A c \in Conns :
            IF c = last.conn THEN DeliveriesTo(c) = <<>>
            ELSE IF last.boardId \in rooms[c]
            THEN DeliveriesTo(c) =
                     <<[to |-> c, ev |-> Relayed(last.kind), data |-> last.arg]>>
            ELSE DeliveriesTo(c) = <<>>

\* an accepted mutation from a joined socket, with two other sockets joined
C1_Witness ==
    /\ last.kind \in MutationKinds
    /\ last.how = "applied"
    /\ last.boardId \in rooms[last.conn]
    /\ Cardinality(Members(rooms, last.boardId) \ {last.conn}) >= 2

\* the owner a board:join reported in its board:sync
SyncOwner(l) == l.out[1].data.ownerId

\* C3: when a board:join creates a board (no resident board, no durable row)
\* and the next event the server handles is a board:join for the same board
\* from another socket, no second board is created: the second join finds the
\* first one's board, both users are in its roster, and both board:sync
\* responses name the first joiner as owner.
C3_BackToBackFirstJoins ==
    [][(/\ last.kind = "board:join" /\ last.how = "created"
        /\ last'.kind = "board:join" /\ last'.boardId = last.boardId
        /\ last'.conn # last.conn)
       => /\ last'.how = "resident"
          /\ last.boardId \in DOMAIN boards'
          /\ {last.arg.userId, last'.arg.userId}
                 \subseteq DOMAIN boards'[last.boardId].connectedUsers
          /\ boards'[last.boardId].ownerId = last.arg.userId
          /\ SyncOwner(last) = last.arg.userId
          /\ SyncOwner(last') = last.arg.userId]_vars

\* a second joiner, another user, on a board that a join created
C3_Witness ==
    /\ last.kind = "board:join"
    /\ last.how = "resident"
    /\ ~HasRow(db, last.boardId)
    /\ Cardinality(DOMAIN boards[last.boardId].connectedUsers) = 2
    /\ boards[last.boardId].ownerId # last.arg.userId
    /\ SyncOwner(last) = boards[last.boardId].ownerId

\* C4: a project:save from a socket whose user is not the owner of the
\* resident board changes neither the registry nor the durable store, and
\* its only emit is board:error UNAUTHORIZED to the requester.
C4_NonOwnerSaveRejected ==
    [][(/\ HandlerRan
        /\ last'.kind = "project:save"
        /\ Resident(last'.boardId)
        /\ currentUserId[last'.conn] # boards[last'.boardId].ownerId)
       => /\ boards' = boards
          /\ db' = db
          /\ last'.out = <<[to |-> last'.conn, ev |-> "board:error",
                            data |-> [code |-> "UNAUTHORIZED"]]>>]_vars

\* a joined non-owner was refused a snapshot that differs from the content,
\* with the owner's socket in the room
C4_Witness ==
    /\ last.kind = "project:save"
    /\ last.how = "unauthorized"
    /\ Resident(last.boardId)
    /\ currentUserId[last.conn] \in Users
    /\ currentUserId[last.conn] # boards[last.boardId].ownerId
    /\ boards[last.boardId].project # last.arg.project
    /\ Members(rooms, last.boardId) \ {last.conn} # {}

\* C5 (as claimed): a socket that joined a board and has not disconnected has
\* that board resident with its user in the roster.
C5_JoinedImpliesInRoster ==
    \A c \in Conns :
        (status[c] = "open" /\ currentBoardId[c] # NULL) =>
            /\ Resident(currentBoardId[c])
            /\ currentUserId[c] \in DOMAIN boards[currentBoardId[c]].connectedUsers

\* C6 (as claimed): once a socket has disconnected, no resident board's roster
\* holds an entry with its socketId.
C6_NoEntryOfClosedSocket ==
    \A c \in Conns :
        status[c] = "closed" =>
            \A b \in DOMAIN boards :
                \A u \in DOMAIN boards[b].connectedUsers :
                    boards[b].connectedUsers[u].socketId # c

\* C7: every board in the registry has a non-empty roster; a board leaves the
\* registry only in the disconnect that empties its roster, and enters it
\* only in a board:join that puts the joiner in its roster.
C7_ResidentHasRoster ==
    /\ [](\A b \in DOMAIN boards : DOMAIN boards[b].connectedUsers # {})
    /\ [][\A b \in Boards :
            /\ (Resident(b) /\ b \notin DOMAIN boards') =>
                   /\ last'.kind = "disconnect" /\ last'.boardId = b
                   /\ DOMAIN boards[b].connectedUsers = {currentUserId[last'.conn]}
            /\ (~Resident(b) /\ b \in DOMAIN boards') =>
                   /\ last'.kind = "board:join" /\ last'.boardId = b
                   /\ last'.arg.userId \in DOMAIN boards'[b].connectedUsers]_vars

\* a disconnect just emptied the roster of a board and the board is gone
\* from the registry, though its room still holds a socket
C7_Witness ==
    /\ last.kind = "disconnect"
    /\ last.how = "evicted"
    /\ ~Resident(last.boardId)
    /\ Members(rooms, last.boardId) # {}

\* the ids of an array
Ids(arr) == {arr[i].id : i \in 1..Len(arr)}

\* the id an update or delete names, and whether the project holds it
TargetsAbsent(l, p) ==
    \/ l.kind \in {"sticky:update", "sticky:delete"}
         /\ l.arg.stickyId \notin Ids(p.stickies)
    \/ l.kind \in {"instance:update", "instance:delete"}
         /\ l.arg.instanceId \notin Ids(p.canvasInstances)

\* C9 (as claimed): an update or delete whose id the board's content does not
\* hold leaves the content unchanged and emits nothing.
C9_AbsentTargetIgnored ==
    [][(/\ HandlerRan
        /\ last'.kind \in MutationKinds
        /\ Resident(last'.boardId)
        /\ TargetsAbsent(last', boards[last'.boardId].project))
       => /\ boards'[last'.boardId].project = boards[last'.boardId].project
          /\ last'.out = <<>>]_vars

\* C10: a mutation event for a board that is not resident changes no board,
\* adds none to the registry, and emits nothing.
C10_NoBoardNoEffect ==
    [][(/\ HandlerRan
        /\ last'.kind \in MutationKinds
        /\ ~Resident(last'.boardId))
       => /\ boards' = boards
          /\ last'.out = <<>>]_vars

\* a mutation for an evicted board whose room still holds another socket
C10_Witness ==
    /\ last.kind \in MutationKinds
    /\ ~Resident(last.boardId)
    /\ Members(rooms, last.boardId) \ {last.conn} # {}

(***************************************************************************)
(* Content properties.                                                     *)
(***************************************************************************)
\* positions of the instances of arr that reference sticky s
Referencing(arr, s) == {i \in 1..Len(arr) : arr[i].stickyId = s}

\* the step is the followed client handling the head of its inbox
ClientStep ==
    /\ last' = last
    /\ inbox[Follower] # <<>>
    /\ inbox'[Follower] = Tail(inbox[Follower])

\* every stored instance points at a stored sticky (the FOREIGN KEY)
DbForeignKey ==
    \A r \in db.canvas_instances : \E k \in db.stickies : k.id = r.sticky_id

\* C2 (amended): when sticky:delete for sticky s is handled on a resident
\* board, the board's in-memory content holds no instance that references s
\* afterwards, and a client that applies the relayed sticky:deleted holds
\* none either; the durable tables are left as they were by the event, and
\* in them every instance row points at a sticky row at all times.
C2_DeleteRemovesInstances ==
    /\ []DbForeignKey
    /\ [][/\ (~ClientStep /\ last'.kind = "sticky:delete" /\ last'.how = "applied") =>
               /\ Referencing(boards'[last'.boardId].project.canvasInstances,
                              last'.arg.stickyId) = {}
               /\ db' = db
          /\ (ClientStep /\ Head(inbox[Follower]).ev = "sticky:deleted") =>
               Referencing(project'[Follower].canvasInstances,
                           Head(inbox[Follower]).data.stickyId) = {}]_vars

\* the owner saved s1 with its instance i1, an instance of another sticky was
\* added, then s1 was deleted: the board and the client, which has handled
\* the relay, keep only the other instance, and the stored rows are still there
C2_Witness ==
    /\ last.kind = "sticky:delete" /\ last.how = "applied"
    /\ last.arg.stickyId = "s1"
    /\ Resident("b1")
    /\ eventLog["b1"].base = P2
    /\ Len(eventLog["b1"].events) = 2
    /\ eventLog["b1"].events[1].ev = "instance:create"
    /\ boards["b1"].project.canvasInstances = <<NewInstance("i2", "s2")>>
    /\ status[Follower] = "open" /\ inbox[Follower] = <<>>
    /\ project[Follower].canvasInstances = <<NewInstance("i2", "s2")>>
    /\ \E r \in db.canvas_instances : r.sticky_id = "s1"

\* C2 as stated: after sticky:delete for s is handled, the durable tables
\* hold no instance of the board that references s either
C2_DurableRemovedToo ==
    (last.kind = "sticky:delete" /\ last.how = "applied") =>
        \A r \in db.canvas_instances :
            ~(r.board_id = last.boardId /\ r.sticky_id = last.arg.stickyId)

(***************************************************************************)
(* The reference semantics of the six mutation events on a content.       *)
(***************************************************************************)
\* the position of the entity of arr the id names: the first that carries it
Named(arr, id) == {i \in 1..Len(arr) : arr[i].id = id /\ \A j \in 1..(i - 1) : arr[j].id # id}

RefMerge(arr, id, patch) ==
    [i \in 1..Len(arr) |-> IF i \in Named(arr, id) THEN patch @@ arr[i] ELSE arr[i]]

RECURSIVE RefDrop(_, _, _)
RefDrop(arr, field, v) ==
    IF arr = <<>> THEN <<>>
    ELSE IF Head(arr)[field] = v THEN RefDrop(Tail(arr), field, v)
    ELSE <<Head(arr)>> \o RefDrop(Tail(arr), field, v)

RefApply(p, e) ==
    IF e.ev = "sticky:create"
    THEN [stickies |-> p.stickies \o <<e.data.sticky>>,
          canvasInstances |-> p.canvasInstances]
    ELSE IF e.ev = "sticky:update"
    THEN [stickies |-> RefMerge(p.stickies, e.data.stickyId, e.data.updates),
          canvasInstances |-> p.canvasInstances]
    ELSE IF e.ev = "sticky:delete"
    THEN [stickies |-> RefDrop(p.stickies, "id", e.data.stickyId),
          canvasInstances |-> RefDrop(p.canvasInstances, "stickyId", e.data.stickyId)]
    ELSE IF e.ev = "instance:create"
    THEN [stickies |-> p.stickies,
          canvasInstances |-> p.canvasInstances \o <<e.data.instance>>]
    ELSE IF e.ev = "instance:update"
    THEN [stickies |-> p.stickies,
          canvasInstances |->
              RefMerge(p.canvasInstances, e.data.instanceId, e.data.updates)]
    ELSE [stickies |-> p.stickies,
          canvasInstances |-> RefDrop(p.canvasInstances, "id", e.data.instanceId)]

RECURSIVE Replay(_, _)
Replay(p, events) ==
    IF events = <<>> THEN p ELSE Replay(RefApply(p, Head(events)), Tail(events))

\* C8: a resident board that started empty and has handled only mutation
\* events since holds exactly the content the reference semantics give for
\* that sequence of events applied to the empty content.
C8_HandlersFoldLikeReference ==
    \A b \in DOMAIN boards :
        eventLog[b].base = EmptyProject =>
            boards[b].project = Replay(EmptyProject, eventLog[b].events)

\* a sticky was created, an update changed its text, and an instance of it
\* was created
C8_Witness ==
    /\ Resident("b1")
    /\ eventLog["b1"].base = EmptyProject
    /\ Len(eventLog["b1"].events) = MaxLog
    /\ eventLog["b1"].events[1].ev = "sticky:create"
    /\ eventLog["b1"].events[2].ev = "sticky:update"
    /\ eventLog["b1"].events[3].ev = "instance:create"
    /\ boards["b1"].project =
           [stickies |-> <<[id |-> "s1", text |-> "b", color |-> "y"]>>,
            canvasInstances |-> <<NewInstance("i1", "s1")>>]

(***************************************************************************)
(* Frame of the update handlers.                                           *)
(***************************************************************************)
\* the array an update event works on, and the id it names
UpdatedArray(kind, p) ==
    IF kind = "sticky:update" THEN p.stickies ELSE p.canvasInstances
UntouchedArray(kind, p) ==
    IF kind = "sticky:update" THEN p.canvasInstances ELSE p.stickies
UpdateId(l) == IF l.kind = "sticky:update" THEN l.arg.stickyId ELSE l.arg.instanceId

\* C11: an accepted sticky:update or instance:update with patch P on an entity
\* the board holds sets exactly the fields of P on that entity (so the value
\* of the update handled last is the one kept) and leaves its other fields,
\* every other sticky and instance, the roster, the owner and every other
\* board unchanged.
C11_UpdateSetsPatchOnly ==
    [][(/\ last'.kind \in {"sticky:update", "instance:update"}
        /\ last'.how = "applied"
        /\ UpdateId(last') \in Ids(UpdatedArray(last'.kind, boards[last'.boardId].project)))
       => LET b == last'.boardId
              P == last'.arg.updates
              arr == UpdatedArray(last'.kind, boards[b].project)
              arr2 == UpdatedArray(last'.kind, boards'[b].project)
              e == CHOOSE i \in 1..Len(arr) :
                       /\ arr[i].id = UpdateId(last')
                       /\ \A j \in 1..Len(arr) : arr[j].id = UpdateId(last') => i <= j
          IN /\ Len(arr2) = Len(arr)
             /\ \A i \in 1..Len(arr) : i # e => arr2[i] = arr[i]
             /\ DOMAIN arr2[e] = DOMAIN arr[e] \cup DOMAIN P
             /\ \A f \in DOMAIN P : arr2[e][f] = P[f]
             /\ \A f \in DOMAIN arr[e] \ DOMAIN P : arr2[e][f] = arr[e][f]
             /\ UntouchedArray(last'.kind, boards'[b].project)
                    = UntouchedArray(last'.kind, boards[b].project)
             /\ boards'[b].connectedUsers = boards[b].connectedUsers
             /\ boards'[b].ownerId = boards[b].ownerId
             /\ boards'[b].ownerUsername = boards[b].ownerUsername
             /\ DOMAIN boards' = DOMAIN boards
             /\ \A o \in DOMAIN boards : o # b => boards'[o] = boards[o]]_vars

\* two updates of the text of s1 with different values were handled one after
\* the other: the sticky carries the later text and its colour as created
C11_Witness ==
    /\ Resident("b1")
    /\ last.kind = "sticky:update" /\ last.how = "applied"
    /\ Len(eventLog["b1"].events) = 3
    /\ eventLog["b1"].events[2] =
           [ev |-> "sticky:update", data |-> [stickyId |-> "s1", updates |-> [text |-> "b"]]]
    /\ eventLog["b1"].events[3] =
           [ev |-> "sticky:update", data |-> [stickyId |-> "s1", updates |-> [text |-> "c"]]]
    /\ boards["b1"].project.stickies = <<[id |-> "s1", text |-> "c", color |-> "y"]>>


(***************************************************************************)
(* SpecDurable: one board and one socket fewer, with joins that carry a    *)
(* project, saves of snapshots the store accepts and of one it refuses,    *)
(* and the history of the owner each boardId was first reported with.      *)
(***************************************************************************)
ContentSeed == [given |-> TRUE, name |-> TRUE, content |-> P2]
DurableProbe == [clients |-> {}, log |-> FALSE, owners |-> TRUE, store |-> FALSE]
InitDurable == InitWith(DurableProbe)

NextDurable ==
    \/ \E c \in FewConns : Connect(c)
    \/ \E c \in FewConns, u \in Users, seed \in {NoSeed, ContentSeed} :
           \E username \in {SessionName(u), "eve"} :
               BoardJoin(c, "b1", u, username, seed)
    \/ \E c \in FewConns : Disconnect(c)
    \/ \E c \in FewConns : StickyCreate(c, "b1", OneSticky) /\ SmallContent'
    \/ \E c \in FewConns : StickyUpdate(c, "b1", "s1", SamePatches.sticky)
    \/ \E c \in FewConns : StickyDelete(c, "b1", "s1")
    \/ \E c \in FewConns : InstanceCreate(c, "b1", OneInstance) /\ SmallContent'
    \/ \E c \in FewConns : InstanceUpdate(c, "b1", "i1", SamePatches.instance)
    \/ \E c \in FewConns : InstanceDelete(c, "b1", "i1")
    \/ \E c \in FewConns, snapshot \in {P1, P2, P3} : ProjectSave(c, "b1", snapshot)
    \/ \E c \in FewConns : StickyActivity(c, "b1", "i1", "moving", "user1", "u1")
    \/ \E c \in FewConns : StickyActivityClear(c, "b1", "i1")

SpecDurable == InitDurable /\ [][NextDurable]_vars


(***************************************************************************)
(* project:save and the durable store.                                     *)
(***************************************************************************)
DurableStickies(d, b) == {r \in d.stickies : r.board_id = b}
DurableInstances(d, b) == {r \in d.canvas_instances : r.board_id = b}

\* the durable content of board b is the content p
Stored(d, b, p) ==
    /\ HasRow(d, b)
    /\ DurableStickies(d, b) = {StickyRow(b, p.stickies[i]) : i \in 1..Len(p.stickies)}
    /\ DurableInstances(d, b) =
           {InstanceRow(b, p.canvasInstances[i]) : i \in 1..Len(p.canvasInstances)}

Acknowledged(l) ==
    /\ l.kind = "project:save"
    /\ \E i \in 1..Len(l.out) : l.out[i].ev = "project:saved" /\ l.out[i].to = l.conn

\* C12: when a project:save is acknowledged with project:saved, the board's
\* in-memory content is the submitted snapshot and the board's durable
\* content is the submitted snapshot, written by that same handler.
C12_AckMeansStored ==
    Acknowledged(last) =>
        /\ Resident(last.boardId)
        /\ boards[last.boardId].project = last.arg.project
        /\ Stored(db, last.boardId, last.arg.project)

\* C13: when the durable write of an owner's save fails (the board has a
\* durable record and the transaction leaves the snapshot unstored), the
\* requester is not sent the success acknowledgement, and the board stays
\* resident.
C13_FailedWriteNotAcknowledged ==
    [][(/\ last'.kind = "project:save"
        /\ last'.how = "saved"
        /\ HasRow(db, last'.boardId)
        /\ ~Stored(db', last'.boardId, last'.arg.project))
       => /\ ~Acknowledged(last')
          /\ last'.boardId \in DOMAIN boards']_vars

\* the part of C13 about the board: after a save whose write failed the
\* board is resident and holds the snapshot
C13_BoardSurvivesFailedWrite ==
    [][(/\ last'.kind = "project:save"
        /\ last'.how = "saved"
        /\ HasRow(db, last'.boardId)
        /\ ~Stored(db', last'.boardId, last'.arg.project))
       => /\ last'.boardId \in DOMAIN boards'
          /\ boards'[last'.boardId].project = last'.arg.project
          /\ db' = db]_vars


(***************************************************************************)
(* The owner of a board.                                                   *)
(***************************************************************************)
\* C14: a board:join that loads the board from its durable record (the
\* board is not resident and a row exists) sets the resident board's
\* ownerId and ownerUsername to the record's, whatever user the joiner
\* claims to be; and no step changes the owner of a board that is resident
\* before and after it.
C14_OwnerFromDurableRecord ==
    [][/\ (/\ last'.kind = "board:join"
           /\ ~Resident(last'.boardId)
           /\ HasRow(db, last'.boardId))
          => /\ boards'[last'.boardId].ownerId = db.boards[last'.boardId].owner_id
             /\ boards'[last'.boardId].ownerUsername =
                    db.boards[last'.boardId].owner_username
       /\ \A b \in DOMAIN boards \cap DOMAIN boards' :
              /\ boards'[b].ownerId = boards[b].ownerId
              /\ boards'[b].ownerUsername = boards[b].ownerUsername]_vars

\* a user who is not the recorded owner, under another name, joined a board
\* that was loaded from its record, after the board had been evicted
C14_Witness ==
    /\ last.kind = "board:join"
    /\ last.how = "hydrated"
    /\ last.boardId \in DOMAIN evicted
    /\ last.arg.userId # db.boards[last.boardId].owner_id
    /\ last.arg.username # db.boards[last.boardId].owner_username
    /\ boards[last.boardId].ownerId = db.boards[last.boardId].owner_id

\* C15: every board:join response for a boardId reports the owner that the
\* first board:join response for that boardId reported, also after the
\* board was evicted and resolved again.
C15_SameOwnerAsFirstJoin ==
    (last.kind = "board:join" /\ last.boardId \in DOMAIN firstOwner)
        => SyncOwner(last) = firstOwner[last.boardId].owner

\* the owner is kept when the first join stored a durable record
C15_StoredOwnerKept ==
    (/\ last.kind = "board:join"
     /\ last.boardId \in DOMAIN firstOwner
     /\ firstOwner[last.boardId].stored)
        => SyncOwner(last) = firstOwner[last.boardId].owner


(***************************************************************************)
(* What a board:join sends.                                                *)
(***************************************************************************)
\* what socket x was sent by the last handler, in order
Received(x) ==
    [i \in 1..Len(DeliveriesTo(x)) |->
        [ev |-> DeliveriesTo(x)[i].ev, data |-> DeliveriesTo(x)[i].data]]

\* the {userId, username} pairs of a roster
RosterPairs(board) ==
    {[userId |-> board.connectedUsers[k].userId,
      username |-> board.connectedUsers[k].username] : k \in DOMAIN board.connectedUsers}

\* C16: on a board:join the joiner alone is sent board:sync, with the
\* board's content, owner and the roster that includes the joiner; every
\* other member of the room (not the joiner) is sent user:joined whose
\* totalUsers is the roster's size; and every member, the joiner included,
\* is sent users:updated with the full roster.
C16_JoinAnnouncements ==
    last.kind = "board:join" =>
        LET b == last.boardId
            board == boards[b]
            sync == [ev |-> "board:sync",
                     data |-> [project |-> board.project, ownerId |-> board.ownerId,
                               ownerUsername |-> board.ownerUsername,
                               connectedUsers |-> RosterPairs(board)]]
            joined == [ev |-> "user:joined",
                       data |-> [username |-> last.arg.username,
                                 userId |-> last.arg.userId,
                                 totalUsers |-> Cardinality(DOMAIN board.connectedUsers)]]
            updated == [ev |-> "users:updated",
                        data |-> [connectedUsers |-> RosterPairs(board)]]
        IN /\ [userId |-> last.arg.userId, username |-> last.arg.username]
                  \in RosterPairs(board)
           /\ \A x \in Conns :
                  Received(x) = IF x = last.conn THEN <<sync, updated>>
                                ELSE IF b \in rooms[x] THEN <<joined, updated>>
                                ELSE <<>>

\* a join into a room with two other members and a second user in the roster
C16_Witness ==
    /\ last.kind = "board:join"
    /\ Cardinality(Members(rooms, last.boardId) \ {last.conn}) >= 2
    /\ Cardinality(DOMAIN boards[last.boardId].connectedUsers) >= 2
    /\ boards[last.boardId].project # EmptyProject


(***************************************************************************)
(* Eviction, the durable record and the join's project.                    *)
(***************************************************************************)
\* the content a board:join sent in its board:sync
SyncProject(l) == l.out[1].data.project

\* C17: the first board:join after an eviction, when the board has a
\* durable record, is sent (and makes resident) exactly the durable
\* content: one sticky per stored sticky row and one instance per stored
\* instance row, not the content the board held in memory when evicted.
C17_JoinAfterEvictionReadsStore ==
    [][(/\ last'.kind = "board:join"
        /\ ~Resident(last'.boardId)
        /\ HasRow(db, last'.boardId))
       => /\ Stored(db, last'.boardId, SyncProject(last'))
          /\ Len(SyncProject(last').stickies) =
                 Cardinality(DurableStickies(db, last'.boardId))
          /\ Len(SyncProject(last').canvasInstances) =
                 Cardinality(DurableInstances(db, last'.boardId))
          /\ boards'[last'.boardId].project = SyncProject(last')]_vars

\* the board was evicted holding content that was not the stored content,
\* and the join that loaded it again was sent the stored, non-empty content
C17_Witness ==
    /\ last.kind = "board:join"
    /\ last.how = "hydrated"
    /\ last.boardId \in DOMAIN evicted
    /\ evicted[last.boardId] # SyncProject(last)
    /\ evicted[last.boardId] # EmptyProject
    /\ SyncProject(last) # EmptyProject
    /\ Stored(db, last.boardId, SyncProject(last))

C19_SeedOnlyForNewBoard ==
    [][(/\ last'.kind = "board:join"
        /\ last'.arg.seed.given
        /\ (Resident(last'.boardId) \/ HasRow(db, last'.boardId)))
       => LET b == last'.boardId
          IN /\ db' = db
             /\ SyncProject(last') = boards'[b].project
             /\ SyncOwner(last') = boards'[b].ownerId
             /\ IF Resident(b)
                THEN /\ boards'[b].project = boards[b].project
                     /\ boards'[b].ownerId = boards[b].ownerId
                     /\ boards'[b].ownerUsername = boards[b].ownerUsername
                ELSE /\ Stored(db, b, boards'[b].project)
                     /\ boards'[b].ownerId = db.boards[b].owner_id
                     /\ boards'[b].ownerUsername = db.boards[b].owner_username]_vars

\* a non-owner joined a resident board with a project that differs from the
\* board's content
C19_Witness ==
    /\ last.kind = "board:join"
    /\ last.how = "resident"
    /\ last.arg.seed.given
    /\ last.arg.seed.content # boards[last.boardId].project
    /\ last.arg.userId # boards[last.boardId].ownerId

\* the same for a board loaded from its durable record
C19_WitnessHydrated ==
    /\ last.kind = "board:join"
    /\ last.how = "hydrated"
    /\ last.arg.seed.given
    /\ last.arg.seed.content # boards[last.boardId].project
    /\ last.arg.userId # boards[last.boardId].ownerId


(***************************************************************************)
(* SpecActivity: socket 1 announces activities on two instances, the       *)
(* followed client records them and runs their expiry timers; the server's *)
(* clock may or may not advance between two announcements.                 *)
(***************************************************************************)
ActivityProbe == [clients |-> {Follower}, log |-> FALSE, owners |-> FALSE, store |-> FALSE]
InitActivity == InitWith(ActivityProbe)

ActivityBound ==
    /\ Len(inbox[Follower]) <= MaxInbox
    /\ Len(timers[Follower]) <= MaxTimers

NextActivity ==
    \/ \E c \in FewConns : Connect(c)
    \/ BoardJoin(1, "b1", "u1", SessionName("u1"), NoSeed) /\ ActivityBound'
    \/ BoardJoin(Follower, "b1", "ux", SessionName("ux"), NoSeed) /\ ActivityBound'
    \/ \E c \in FewConns : Disconnect(c)
    \/ \E instanceId \in {"i1", "i2"}, action \in {"moving", "editing"} :
           StickyActivity(1, "b1", instanceId, action, "user1", "u1") /\ ActivityBound'
    \/ StickyActivityClear(1, "b1", "i1") /\ ActivityBound'
    \/ ClientReceive(Follower) /\ ActivityBound'
    \/ TimerFires(Follower)
    \/ Tick

SpecActivity == InitActivity /\ [][NextActivity]_vars

\* the timer of client c that fires in this step, as <<t>>, or <<>>
Firing(c) ==
    IF Len(timers'[c]) < Len(timers[c]) THEN <<Head(timers[c])>> ELSE <<>>

\* C20: the expiry timer of an activity a1 never removes another, newer
\* activity a2 recorded for the same instance: when a timer fires while the
\* record of its instance is not the activity the timer was set for, the
\* record stays; also when a1 and a2 carry the same timestamp.
C20_TimerSparesNewerActivity ==
    [][\A c \in Conns :
         Firing(c) # <<>> =>
            LET t == Firing(c)[1]
            IN (/\ t.instanceId \in DOMAIN stickyActivities[c]
                /\ stickyActivities[c][t.instanceId] # t.activity)
               => stickyActivities'[c] = stickyActivities[c]]_vars

\* the part of C20 the timestamp check gives: a newer activity with another
\* timestamp is kept, and so are the records of other instances
C20_OtherTimestampKept ==
    [][\A c \in Conns :
         Firing(c) # <<>> =>
            LET t == Firing(c)[1]
            IN \A i \in DOMAIN stickyActivities[c] :
                  (i # t.instanceId
                   \/ stickyActivities[c][i].timestamp # t.activity.timestamp)
                  => /\ i \in DOMAIN stickyActivities'[c]
                     /\ stickyActivities'[c][i] = stickyActivities[c][i]]_vars


(***************************************************************************)
(* SpecActivityLive: SpecActivity where a pending timeout of the followed  *)
(* client eventually runs (the browser's timer queue).                     *)
(***************************************************************************)
SpecActivityLive == SpecActivity /\ WF_vars(TimerFires(Follower))

\* the activities the server can relay under SpecActivity
ActivityRecords ==
    [instanceId : {"i1", "i2"}, userId : {"u1"}, username : {"user1"},
     action : {"moving", "editing"}, timestamp : 0..MaxClock]

\* the followed client shows activity a
Shows(a) ==
    /\ a.instanceId \in DOMAIN stickyActivities[Follower]
    /\ stickyActivities[Follower][a.instanceId] = a

\* the step is the followed client's receipt of the announcement of the
\* record that instance i has after it
Announced(i) ==
    /\ inbox[Follower] # <<>>
    /\ Head(inbox[Follower]).ev = "sticky:activity"
    /\ Head(inbox[Follower]).data = stickyActivities'[Follower][i]
    /\ inbox'[Follower] = Tail(inbox[Follower])

\* C21: every activity record the client stores is eventually removed, also
\* when no sticky:activity:clear arrives (timers fire); and a record appears
\* for an instance only by the receipt of an announcement of it, so a
\* removed record does not come back without a new announcement.
C21_RecordsExpire ==
    /\ \A a \in ActivityRecords : Shows(a) ~> ~Shows(a)
    /\ [][\A i \in DOMAIN stickyActivities'[Follower] :
            (\/ i \notin DOMAIN stickyActivities[Follower]
             \/ stickyActivities'[Follower][i] # stickyActivities[Follower][i])
            => Announced(i)]_vars

\* the last event the server handled is an announcement for i1 that the
\* followed client received; no clear followed it, the client's timers have
\* all run and the record of i1 is gone
C21_Witness ==
    /\ last.kind = "sticky:activity"
    /\ last.arg.instanceId = "i1"
    /\ DeliveriesTo(Follower) # <<>>
    /\ inbox[Follower] = <<>>
    /\ timers[Follower] = <<>>
    /\ "i1" \notin DOMAIN stickyActivities[Follower]


(***************************************************************************)
(* The activity relay.                                                     *)
(***************************************************************************)
\* what the relay of the last activity event carries
ActivityRelay(l) ==
    IF l.kind = "sticky:activity"
    THEN [ev |-> "sticky:activity",
          data |-> [instanceId |-> l.arg.instanceId, userId |-> l.arg.userId,
                    username |-> l.arg.username, action |-> l.arg.action,
                    timestamp |-> now]]
    ELSE [ev |-> "sticky:activity:clear", data |-> [instanceId |-> l.arg.instanceId]]

\* C22: a sticky:activity or sticky:activity:clear event is relayed once to
\* every other socket in the board's room and never to its sender; its
\* handler changes no board (content, roster, owner) and writes nothing; and
\* a board:sync carries the board's project, owner and roster only, so a
\* later joiner is not sent the activity.
C22_ActivityRelayedOnly ==
    /\ [](last.kind \in ActivityEvents =>
            \A x \in Conns :
                Received(x) = IF x # last.conn /\ last.boardId \in rooms[x]
                              THEN <<ActivityRelay(last)>>
                              ELSE <<>>)
    /\ [][last'.kind \in ActivityEvents => (boards' = boards /\ db' = db)]_vars
    /\ [](last.kind = "board:join" =>
            /\ DOMAIN last.out[1].data =
                   {"project", "ownerId", "ownerUsername", "connectedUsers"}
            /\ SyncProject(last) = boards[last.boardId].project
            /\ DOMAIN SyncProject(last) = {"stickies", "canvasInstances"})

\* a joined socket announced an activity with two other sockets in the room
C22_Witness ==
    /\ last.kind = "sticky:activity"
    /\ last.boardId \in rooms[last.conn]
    /\ Cardinality(Members(rooms, last.boardId) \ {last.conn}) >= 2
    /\ Resident(last.boardId)
    /\ boards[last.boardId].project # EmptyProject


(***************************************************************************)
(* The order of the relayed events.                                        *)
(***************************************************************************)
MutationRelays == {Relayed(k) : k \in MutationKinds}

\* the relayed mutation events client c has not handled yet, oldest first
PendingRelays(c) == SelectSeq(inbox[c], LAMBDA m : m.ev \in MutationRelays)

\* the relays of the mutation events the server handled for board b since
\* the board's content was last set as a whole, in the order it handled them
HandledRelays(b) ==
    [i \in 1..Len(eventLog[b].events) |->
        [ev |-> Relayed(eventLog[b].events[i].ev), data |-> eventLog[b].events[i].data]]

LastN(s, n) == SubSeq(s, Len(s) - n + 1, Len(s))

Shorter(s, t) == IF Len(s) <= Len(t) THEN Len(s) ELSE Len(t)

\* C23: the mutation events of a sending connection reach each other member
\* in the order the server handled them: the relays a member has still to
\* handle are, in the same order, the most recent events the server
\* handled, and the member handles the oldest one first.
C23_RelayedInHandlingOrder ==
    /\ [](\A b \in DOMAIN eventLog :
            b \in rooms[Follower] =>
                LET n == Shorter(PendingRelays(Follower), HandledRelays(b))
                IN LastN(PendingRelays(Follower), n) = LastN(HandledRelays(b), n))
    /\ [][(status'[Follower] = "open" /\ Len(inbox'[Follower]) < Len(inbox[Follower]))
            => inbox'[Follower] = Tail(inbox[Follower])]_vars

\* two different relayed events of socket 1 wait at the followed client in
\* the order the server handled them
C23_Witness ==
    /\ Len(PendingRelays(Follower)) = 2
    /\ inbox[Follower] = PendingRelays(Follower)
    /\ inbox[Follower][1] # inbox[Follower][2]
    /\ "b1" \in DOMAIN eventLog
    /\ Len(eventLog["b1"].events) >= 2
    /\ LastN(HandledRelays("b1"), 2) = inbox[Follower]
    /\ last.conn = 1


(***************************************************************************)
(* Identity.                                                               *)
(***************************************************************************)
\* C24: a board:join registers a roster entry, and makes the joiner owner
\* of a new board, only for a validated identity: every userId in a roster
\* and every owner of a resident board is a user the session service knows
\* (a session's user_id references a row of the users table).
C24_RosterOnlyValidated ==
    \A b \in DOMAIN boards :
        /\ DOMAIN boards[b].connectedUsers \subseteq RegisteredUsers
        /\ boards[b].ownerId \in RegisteredUsers


(***************************************************************************)
(* SpecConverge: two clients on one board, each with its local store; both *)
(* edit the text of the same sticky, applying the edit locally and         *)
(* emitting it, while the server handles the emitted events and relays     *)
(* them.                                                                   *)
(***************************************************************************)
ConvergeProbe == [clients |-> FewConns, log |-> FALSE, owners |-> FALSE, store |-> FALSE]
InitConverge == InitWith(ConvergeProbe)

ConvergeBound ==
    /\ \A c \in Conns : Len(inbox[c]) <= MaxInbox
    /\ \A c \in Conns : Len(outbox[c]) <= MaxOutbox

NextConverge ==
    \/ \E c \in FewConns : Connect(c)
    \/ /\ "b1" \notin rooms[1]           \* a client joins once per connection
       /\ BoardJoin(1, "b1", "u1", SessionName("u1"), ContentSeed)
       /\ ConvergeBound'
    \/ /\ "b1" \notin rooms[2]
       /\ BoardJoin(2, "b1", "ux", SessionName("ux"), NoSeed)
       /\ ConvergeBound'
    \/ \E c \in FewConns, text \in {"a", "b"} :
           ClientUpdateSticky(c, "b1", "s1", [text |-> text]) /\ ConvergeBound'
    \/ \E c \in FewConns :
           /\ outbox[c] # <<>>
           /\ StickyUpdate(c, Head(outbox[c]).boardId, Head(outbox[c]).data.stickyId,
                           Head(outbox[c]).data.updates)
           /\ ConvergeBound'
    \/ \E c \in FewConns : ClientReceive(c)

SpecConverge == InitConverge /\ [][NextConverge]_vars

\* nothing is in flight between the clients and the server
Quiescent == \A c \in Conns : inbox[c] = <<>> /\ outbox[c] = <<>>

\* C25: when every event in flight has been delivered and handled, the
\* local stickies and canvasInstances of every joined client equal the
\* server's in-memory content of the board, also after two members updated
\* the same field of the same sticky concurrently.
C25_QuiescentClientsAgree ==
    Quiescent =>
        \A b \in DOMAIN boards : \A c \in probe.clients :
            (status[c] = "open" /\ b \in rooms[c]) =>
                /\ project[c].stickies = boards[b].project.stickies
                /\ project[c].canvasInstances = boards[b].project.canvasInstances


(***************************************************************************)
(* Membership and the events that name a board.                            *)
(***************************************************************************)
\* C26: a mutation event or project:save that names board b and comes from
\* a connection that has not joined b is rejected: it is neither applied
\* nor saved, and nothing is relayed to the members of b.
C26_UnjoinedSenderRejected ==
    (/\ last.kind \in MutationKinds \cup {"project:save"}
     /\ last.boardId \notin rooms[last.conn])
        => /\ last.how \notin {"applied", "saved"}
           /\ \A i \in 1..Len(last.out) : last.out[i].to = last.conn


(***************************************************************************)
(* SpecLayout: validateAndAdjustLayout applied to every list of at most    *)
(* MaxItems positions over a few coordinates; equal, near (within the 60px *)
(* tolerance) and far y values, inside and outside the canvas.             *)
(***************************************************************************)
LayoutXs == {0, 250}
LayoutYs == {0, 50, 100, 200, 300, 400}

InitLayout ==
    /\ InitExceptLayout(NoProbe)
    /\ \E n \in 0..MaxItems : \E f \in [1..n -> LayoutXs \X LayoutYs] :
           positions = [i \in 1..n |-> [stickyText |-> i, x |-> f[i][1], y |-> f[i][2]]]
    /\ laid = <<>>
    /\ store = [c \in Conns |-> InitialStore]

NextLayout == ValidateLayout

SpecLayout == InitLayout /\ [][NextLayout]_vars

\* the validator has returned for a list that is not empty
Laid == laid # <<>> /\ positions # <<>>

\* C27: for a non-empty input every returned position lies within the
\* canvas bounds (x >= 80, x + 200 <= 1200, y >= 80, y + 120 <= 800, which
\* is isWithinBounds), and the output has exactly one position per input
\* item.
C27_LayoutWithinBounds ==
    Laid =>
        /\ Len(laid[1]) = Len(positions)
        /\ {laid[1][i].stickyText : i \in 1..Len(laid[1])} =
               {positions[i].stickyText : i \in 1..Len(positions)}
        /\ \A i \in 1..Len(laid[1]) :
               /\ laid[1][i].x >= 80 /\ laid[1][i].x + 200 <= 1200
               /\ laid[1][i].y >= 80 /\ laid[1][i].y + 120 <= 800
               /\ isWithinBounds(laid[1][i].x, laid[1][i].y)

\* a list of MaxItems positions, all outside the canvas bounds, that the
\* validator laid out in five rows
C27_Witness ==
    /\ Laid
    /\ Len(positions) = MaxItems
    /\ \A i \in 1..Len(positions) : ~isWithinBounds(positions[i].x, positions[i].y)
    /\ \A i, j \in 1..Len(positions) :
           i # j => Abs(positions[i].y - positions[j].y) >= 60

\* C28: no two distinct returned positions overlap, whatever the number of
\* rows.
C28_LayoutWithoutOverlap ==
    Laid =>
        \A i, j \in 1..Len(laid[1]) :
            i # j => ~checkOverlap(laid[1][i], laid[1][j])

\* the x positions, left to right, of the returned row at height y
RowXs(y) ==
    LET row == SelectSeq(laid[1], LAMBDA pos : pos.y = y)
    IN [i \in 1..Len(row) |-> row[i].x]

\* the heights of the returned rows above the height the clamp ends at
RowYs ==
    {laid[1][i].y : i \in 1..Len(laid[1])}
        \ {WORKING_AREA.endY - CANVAS_CONFIG.stickyHeight}

\* C29: a row of one item is placed at x=500, a row of two items at x=300
\* and x=700, a row of three items at x=200, x=500 and x=800, and two
\* consecutive rows of one item are 170 apart in y.
C29_LayoutRules ==
    Laid =>
        /\ \A y \in RowYs :
               /\ Len(RowXs(y)) = 1 => RowXs(y) = <<500>>
               /\ Len(RowXs(y)) = 2 => RowXs(y) = <<300, 700>>
               /\ Len(RowXs(y)) = 3 => RowXs(y) = <<200, 500, 800>>
        /\ \A y1, y2 \in RowYs :
               (/\ y1 < y2
                /\ ~\E y \in RowYs : y1 < y /\ y < y2
                /\ Len(RowXs(y1)) = 1 /\ Len(RowXs(y2)) = 1)
               => y2 - y1 = 170

\* the part of C29 that holds: a row of one item is placed at x=500
C29_SingleItemCentred ==
    Laid => \A y \in RowYs : Len(RowXs(y)) = 1 => RowXs(y) = <<500>>


(***************************************************************************)
(* References between instances and stickies.                              *)
(***************************************************************************)
\* C30: in every state, every CanvasInstance in the content of a resident
\* board references a sticky that is present in the board's stickies.
C30_NoDanglingInstance ==
    \A b \in DOMAIN boards :
        \A i \in 1..Len(boards[b].project.canvasInstances) :
            \E j \in 1..Len(boards[b].project.stickies) :
                boards[b].project.stickies[j].id =
                    boards[b].project.canvasInstances[i].stickyId

(***************************************************************************)
(* Identifiers as keys of the content.                                     *)
(***************************************************************************)
\* C31: in every state of a resident board the sticky identifiers are
\* pairwise distinct and the instance identifiers are pairwise distinct.
C31_IdsDistinct ==
    \A b \in DOMAIN boards :
        /\ Distinct(boards[b].project.stickies)
        /\ Distinct(boards[b].project.canvasInstances)

\* the consequence C31 draws from distinct identifiers: on the content of a
\* resident board, an update by id gives the same content on the server
\* (first match) as on a client that holds that content (every match)
C31_UpdateChangesSameEntities ==
    \A b \in DOMAIN boards :
        /\ \A id \in StickyIds :
               mergeSticky(boards[b].project, id, [text |-> "b"]) =
                   applyRemoteUpdate(boards[b].project, "sticky:updated",
                       [stickyId |-> id, updates |-> [text |-> "b"]])
        /\ \A id \in {"i1", "i2"} :
               mergeInstance(boards[b].project, id, [x |-> 1]) =
                   applyRemoteUpdate(boards[b].project, "instance:updated",
                       [instanceId |-> id, updates |-> [x |-> 1]])

(***************************************************************************)
(* saveBoardState as one transaction.                                      *)
(***************************************************************************)
\* the durable stickies and canvas instances of board b
RowsOf(d, b) ==
    [stickies |-> {r \in d.stickies : r.board_id = b},
     canvas_instances |-> {r \in d.canvas_instances : r.board_id = b}]

\* the rows saveBoardState is asked to write for board b
RowsFor(b, snapshot) ==
    [stickies |->
         {StickyRow(b, snapshot.stickies[i]) : i \in 1..Len(snapshot.stickies)},
     canvas_instances |->
         {InstanceRow(b, snapshot.canvasInstances[i]) :
              i \in 1..Len(snapshot.canvasInstances)}]

\* an INSERT of the call fails: an instance of the snapshot references a
\* sticky the snapshot does not hold, or an id is repeated
Refused(b, snapshot) ==
    \/ \E r \in RowsFor(b, snapshot).canvas_instances :
           \A s \in RowsFor(b, snapshot).stickies : s.id # r.sticky_id
    \/ ~Distinct(snapshot.stickies)
    \/ ~Distinct(snapshot.canvasInstances)

\* a project:save that reached saveBoardState
SaveCalled(b) ==
    /\ last'.kind = "project:save"
    /\ last'.how = "saved"
    /\ last'.boardId = b
    /\ HasRow(db, b)

\* C32: a saveBoardState call in which a statement fails leaves the durable
\* stickies and canvas instances of the board exactly as they were before
\* the call; a call that succeeds leaves exactly the provided lists.
C32_SaveAllOrNothing ==
    [][\A b \in Boards :
           SaveCalled(b) =>
               IF Refused(b, last'.arg.project)
               THEN RowsOf(db', b) = RowsOf(db, b)
               ELSE RowsOf(db', b) = RowsFor(b, last'.arg.project)]_vars

\* a save of a snapshot with a dangling instance was just refused while the
\* board had durable stickies, and they are still there
C32_Witness ==
    /\ last.kind = "project:save"
    /\ last.how = "saved"
    /\ HasRow(db, "b1")
    /\ Refused("b1", last.arg.project)
    /\ RowsOf(db, "b1").stickies # {}
    /\ RowsOf(db, "b1").canvas_instances # {}

(***************************************************************************)
(* SpecStore: the store of one client with its undo history.  The client   *)
(* loads a project, joins a board and is synced, edits a sticky, undoes    *)
(* and redoes; applyRemoteUpdate is also called with an event type the     *)
(* store does not know and without a payload.                              *)
(***************************************************************************)
\* the client whose store is followed: the first socket
Editor == 1
StoreProbe == [clients |-> {Editor}, log |-> FALSE, owners |-> FALSE, store |-> TRUE]
InitStore == InitWith(StoreProbe)
StoreSeed == [given |-> TRUE, name |-> TRUE, content |-> P1]

StoreBound ==
    /\ Len(inbox[Editor]) <= MaxInbox
    /\ Len(outbox[Editor]) <= MaxOutbox

RemoteCalls ==
    {<<"sticky:updated", <<[stickyId |-> "s1", updates |-> [text |-> "c"]]>>>>,
     <<"sticky:updated", <<>>>>,
     <<"board:sync", <<>>>>,
     <<"cursor:moved", <<>>>>}

NextStore ==
    \/ Connect(Editor)
    \/ /\ "b1" \notin rooms[Editor]
       /\ BoardJoin(Editor, "b1", "u1", SessionName("u1"), StoreSeed)
       /\ StoreBound'
    \/ Disconnect(Editor)
    \/ ClientReceive(Editor)
    \/ ClientUpdateSticky(Editor, "b1", "s1", [text |-> "b"]) /\ StoreBound'
    \/ /\ outbox[Editor] # <<>>
       /\ StickyUpdate(Editor, Head(outbox[Editor]).boardId,
                       Head(outbox[Editor]).data.stickyId,
                       Head(outbox[Editor]).data.updates)
       /\ StoreBound'
    \/ Undo(Editor)
    \/ Redo(Editor)
    \/ \E p \in {P0, P1} : LoadProject(Editor, p)
    \/ \E call \in RemoteCalls : ApplyRemoteUpdate(Editor, call[1], call[2])

SpecStore == InitStore /\ [][NextStore]_vars

\* C33: after any sequence of local store actions, undo, redo, loadProject
\* and board:sync, 0 <= historyIndex < history.length <= 50, canUndo is
\* true exactly when historyIndex > 0 and canRedo is true exactly when
\* historyIndex < history.length - 1.
C33_HistoryIndexInRange ==
    \A c \in probe.clients :
        /\ 0 <= store[c].historyIndex
        /\ store[c].historyIndex < Len(store[c].history)
        /\ Len(store[c].history) <= 50
        /\ store[c].canUndo <=> store[c].historyIndex > 0
        /\ store[c].canRedo <=> store[c].historyIndex < Len(store[c].history) - 1

\* the history is full, and an undo has moved the index off its last entry
C33_Witness ==
    /\ Len(store[Editor].history) = 50
    /\ store[Editor].historyIndex = 48
    /\ store[Editor].canRedo
    /\ store[Editor].canUndo


\* a step in which client c applies a remote event through applyRemoteUpdate
AppliesRemote(c) ==
    \/ ClientReceive(c) /\ Head(inbox[c]).ev \in StoreEvents
    \/ \E call \in RemoteCalls : ApplyRemoteUpdate(c, call[1], call[2])

\* C34: applying a remote event through applyRemoteUpdate never makes the
\* client emit an event to the server, and the _skipBroadcast flag is false
\* again after applyRemoteUpdate returns, for every event type, including
\* unknown ones and ones that throw.
C34_NoBroadcastLoop ==
    /\ [](\A c \in probe.clients : ~store[c].skipBroadcast)
    /\ [][\A c \in probe.clients :
              AppliesRemote(c) => outbox' = outbox /\ last' = last]_vars

\* the client has applied a board:sync and a remote sticky:updated (the
\* text "c" comes from no other event); nothing was emitted and the flag is
\* down
C34_Witness ==
    /\ "b1" \in rooms[Editor]
    /\ inbox[Editor] = <<>>
    /\ store[Editor].history = <<P1>>
    /\ project[Editor].stickies = <<[NewSticky("s1") EXCEPT !.text = "c"]>>
    /\ outbox[Editor] = <<>>
    /\ ~store[Editor].skipBroadcast

(***************************************************************************)
(* SpecSession: logins, requests behind authenticateToken and logouts      *)
(* while the clock advances past the expiry of the sessions.               *)
(***************************************************************************)
Tokens == [user : RegisteredUsers, issued : 0..MaxSessionClock]

NextSession ==
    \/ \E u \in Users : Login(u)
    \/ \E token \in Tokens : AuthenticateToken(token)
    \/ \E token \in Tokens : Logout(token)
    \/ Elapse /\ now' <= MaxSessionClock

SpecSession == Init /\ [][NextSession]_vars

\* the last request ran validateSession on the token
Validated(token) ==
    /\ last.kind \in {"authenticateToken", "logout"}
    /\ last.arg.token = token

\* C35: validateSession returns null for a token with no session and for a
\* token whose expires_at is earlier than the current time, never returns a
\* session that has expired, and validating an expired token deletes that
\* session, so that every later validation of the token returns null too.
C35_ExpiredSessionRejected ==
    /\ [][\A token \in Tokens :
              AuthenticateToken(token) =>
                  /\ token \notin DOMAIN db.sessions => last'.out = <<>>
                  /\ (/\ token \in DOMAIN db.sessions
                      /\ db.sessions[token].expires_at < now)
                     => last'.out = <<>> /\ token \notin DOMAIN db'.sessions
                  /\ last'.out # <<>> => ~(last'.out[1].expires_at < now)]_vars
    /\ \A token \in Tokens :
           []((Validated(token) /\ last.how = "expired")
              => [](Validated(token) => last.out = <<>>))

\* an expired token was just refused and its session is gone, while a
\* session that has not expired is still stored
C35_Witness ==
    /\ last.kind = "authenticateToken"
    /\ last.how = "expired"
    /\ last.out = <<>>
    /\ last.arg.token \notin DOMAIN db.sessions
    /\ \E token \in DOMAIN db.sessions : db.sessions[token].expires_at >= now

=============================================================================
